---- MODULE Spec2Model ----
(***************************************************************************)
(* A model of the Stack interpreter of src/src/main.rs: the tokenizer      *)
(* (analyze_syntax), the value type and its coercions (Type), the          *)
(* evaluator (evaluate_program), the command table (execute_command) and   *)
(* the `thread` / `exit` commands.                                         *)
(*                                                                         *)
(* Text is a TLA+ string; a character is a string of length one.           *)
(* A Number (f64 in the source) is an extended rational n/d in lowest      *)
(* terms: d = 1 an integer, d > 1 a fraction, d = 0 an IEEE special        *)
(* (1/0 = inf, -1/0 = -inf, 0/0 = NaN).  Rounding and the negative zero of *)
(* f64 are not modelled; an operation whose f64 result is no such number   *)
(* (a fractional power, the digits of 1/3) is left undefined, so that TLC  *)
(* stops with an error instead of computing with a wrong value.            *)
(***************************************************************************)
EXTENDS Integers, Sequences, FiniteSets, TLC

\* A value outside the modelled domain: evaluating it is a TLC error.
Undefined(x) == CHOOSE r \in {} : r = x

\* The element of a one-element set.  The({F(x) : x \in {e}}) is F(e), with e
\* computed once, however often F uses x: the loops below are written so.
The(S) == CHOOSE r \in S : TRUE

-----------------------------------------------------------------------------
(* Characters and strings *)

CharAt(s, i) == SubSeq(s, i, i)

Digits == "0123456789"

IsDigit(c) == \E k \in 1..10 : CharAt(Digits, k) = c

DigitVal(c) == (CHOOSE k \in 1..10 : CharAt(Digits, k) = c) - 1

DigitChar(k) == CharAt(Digits, k + 1)

StartsWith(s, p) == Len(s) >= Len(p) /\ SubSeq(s, 1, Len(p)) = p

\* str::replace(pat, to): every non-overlapping occurrence, left to right.
RECURSIVE ReplaceFrom(_, _, _, _)
ReplaceFrom(s, i, pat, to) ==
    IF i > Len(s) THEN ""
    ELSE IF /\ pat # ""
            /\ i + Len(pat) - 1 <= Len(s)
            /\ SubSeq(s, i, i + Len(pat) - 1) = pat
         THEN to \o The({ReplaceFrom(s, j, pat, to) : j \in {i + Len(pat)}})
         ELSE CharAt(s, i) \o The({ReplaceFrom(s, j, pat, to) : j \in {i + 1}})

Replace(s, pat, to) == ReplaceFrom(s, 1, pat, to)

\* ASCII lower case of the letters a number literal can hold.
LowerChar(c) ==
    CASE c = "I" -> "i" [] c = "N" -> "n" [] c = "F" -> "f" [] c = "T" -> "t"
      [] c = "Y" -> "y" [] c = "A" -> "a" [] c = "E" -> "e" [] OTHER -> c

RECURSIVE Lower(_)
Lower(s) == IF s = "" THEN "" ELSE LowerChar(Head(s)) \o Lower(Tail(s))

-----------------------------------------------------------------------------
(* Numbers: f64 as an extended rational [n, d] *)

Abs(i) == IF i < 0 THEN -i ELSE i

Sgn(i) == IF i < 0 THEN -1 ELSE IF i > 0 THEN 1 ELSE 0

RECURSIVE Gcd(_, _)
Gcd(a, b) == IF b = 0 THEN a ELSE The({Gcd(b, r) : r \in {a % b}})

\* n/d (d > 0) in lowest terms.
Norm(n, d) == The({[n |-> n \div g, d |-> d \div g] : g \in {Gcd(Abs(n), d)}})

Int2Num(i) == [n |-> i, d |-> 1]
NaN == [n |-> 0, d |-> 0]
Inf(sign) == [n |-> sign, d |-> 0]

IsNaN(x) == x.d = 0 /\ x.n = 0
IsInf(x) == x.d = 0 /\ x.n # 0
IsFinite(x) == x.d # 0

RECURSIVE Pow10(_)
Pow10(k) == IF k = 0 THEN 1 ELSE 10 * Pow10(k - 1)

NumNeg(x) == [n |-> -x.n, d |-> x.d]

\* a + b of f64.
NumAdd(a, b) ==
    IF IsNaN(a) \/ IsNaN(b) THEN NaN
    ELSE IF IsInf(a) /\ IsInf(b) THEN (IF a.n = b.n THEN a ELSE NaN)
    ELSE IF IsInf(a) THEN a
    ELSE IF IsInf(b) THEN b
    ELSE Norm(a.n * b.d + b.n * a.d, a.d * b.d)

\* a - b of f64.
NumSub(a, b) == NumAdd(a, NumNeg(b))

\* a * b of f64.
NumMul(a, b) ==
    IF IsNaN(a) \/ IsNaN(b) THEN NaN
    ELSE IF IsInf(a) \/ IsInf(b)
         THEN (IF a.n = 0 \/ b.n = 0 THEN NaN ELSE Inf(Sgn(a.n) * Sgn(b.n)))
    ELSE Norm(a.n * b.n, a.d * b.d)

\* a / b of f64 (IEEE-754: x/0 is an infinity, 0/0 is NaN).
NumDiv(a, b) ==
    IF IsNaN(a) \/ IsNaN(b) THEN NaN
    ELSE IF IsInf(a) THEN (IF IsInf(b) THEN NaN
                           ELSE Inf(a.n * (IF b.n < 0 THEN -1 ELSE 1)))
    ELSE IF IsInf(b) THEN Int2Num(0)
    ELSE IF b.n = 0 THEN (IF a.n = 0 THEN NaN ELSE Inf(Sgn(a.n)))
    ELSE Norm(a.n * b.d * Sgn(b.n), a.d * Abs(b.n))

\* The integer part of a finite number, rounded toward zero.
Trunc(a) == Sgn(a.n) * (Abs(a.n) \div a.d)

\* a % b of f64 (fmod: the remainder has the sign of a).
NumMod(a, b) ==
    IF IsNaN(a) \/ IsNaN(b) \/ IsInf(a) THEN NaN
    ELSE IF IsInf(b) THEN a
    ELSE IF b.n = 0 THEN NaN
    ELSE The({NumSub(a, NumMul(b, Int2Num(Trunc(q)))) : q \in {NumDiv(a, b)}})

RECURSIVE IntPow(_, _)
IntPow(a, k) ==
    IF k = 0 THEN Int2Num(1)
    ELSE The({NumMul(a, p) : p \in {IntPow(a, k - 1)}})

\* a.powf(b) of f64, for the exponents the model's numbers can express.
NumPow(a, b) ==
    IF b = Int2Num(0) \/ a = Int2Num(1) THEN Int2Num(1)
    ELSE IF IsNaN(a) \/ IsNaN(b) THEN NaN
    ELSE IF IsFinite(b) /\ b.d = 1
         THEN (IF b.n > 0 THEN IntPow(a, b.n)
               ELSE NumDiv(Int2Num(1), IntPow(a, -b.n)))
    ELSE Undefined(<<a, b>>)

\* a < b of f64 (false when either is NaN).
NumLess(a, b) ==
    IF IsNaN(a) \/ IsNaN(b) THEN FALSE
    ELSE IF IsInf(a) THEN a.n < 0 /\ b # a
    ELSE IF IsInf(b) THEN b.n > 0
    ELSE a.n * b.d < b.n * a.d

RECURSIVE NatToString(_)
NatToString(k) ==
    IF k < 10 THEN DigitChar(k)
    ELSE NatToString(k \div 10) \o DigitChar(k % 10)

RECURSIVE OnlyTwosAndFives(_)
OnlyTwosAndFives(d) ==
    IF d = 1 THEN TRUE
    ELSE IF d % 2 = 0 THEN OnlyTwosAndFives(d \div 2)
    ELSE IF d % 5 = 0 THEN OnlyTwosAndFives(d \div 5)
    ELSE FALSE

RECURSIVE FracDigits(_, _)
FracDigits(r, d) ==
    IF r = 0 THEN ""
    ELSE DigitChar((r * 10) \div d) \o FracDigits((r * 10) % d, d)

\* f64::to_string: the shortest decimal, no exponent, no ".0" on an integer.
NumToString(x) ==
    IF IsNaN(x) THEN "NaN"
    ELSE IF IsInf(x) THEN (IF x.n > 0 THEN "inf" ELSE "-inf")
    ELSE LET sign == IF x.n < 0 THEN "-" ELSE ""
             m == Abs(x.n)
         IN IF x.d = 1 THEN sign \o NatToString(m)
            ELSE IF OnlyTwosAndFives(x.d)
                 THEN sign \o NatToString(m \div x.d) \o "."
                           \o FracDigits(m % x.d, x.d)
                 ELSE Undefined(x)

\* str::parse::<f64> reads Sign? ('inf' | 'infinity' | 'nan' | Number), where
\* Number ::= (Digit+ | Digit+ '.' Digit* | Digit* '.' Digit+) Exp? and
\* Exp ::= 'e' Sign? Digit+, letters in either case.  The decimal part is
\* scanned character by character from these locals.
DecInit ==
    [phase |-> "int", mant |-> 0, nd |-> 0, nf |-> 0, esign |-> 1, e |-> 0]

DecStep(st, c) ==
    CASE st.phase = "int" /\ IsDigit(c) ->
            [st EXCEPT !.mant = 10 * @ + DigitVal(c), !.nd = @ + 1]
      [] st.phase = "frac" /\ IsDigit(c) ->
            [st EXCEPT !.mant = 10 * @ + DigitVal(c), !.nd = @ + 1, !.nf = @ + 1]
      [] st.phase = "int" /\ c = "." -> [st EXCEPT !.phase = "frac"]
      [] st.phase \in {"int", "frac"} /\ c \in {"e", "E"} /\ st.nd >= 1 ->
            [st EXCEPT !.phase = "exp"]
      [] st.phase = "exp" /\ c \in {"+", "-"} ->
            [st EXCEPT !.phase = "expsign", !.esign = IF c = "-" THEN -1 ELSE 1]
      [] st.phase \in {"exp", "expsign", "expdigits"} /\ IsDigit(c) ->
            [st EXCEPT !.phase = "expdigits", !.e = 10 * @ + DigitVal(c)]
      [] OTHER -> [st EXCEPT !.phase = "bad"]

RECURSIVE DecFold(_, _, _, _)
DecFold(st, s, lo, hi) ==
    IF lo > hi THEN st
    ELSE IF lo = hi THEN The({DecStep(v, CharAt(s, lo)) : v \in {st}})
    ELSE The({DecFold(half, s, (lo + hi) \div 2 + 1, hi) :
                 half \in {DecFold(st, s, lo, (lo + hi) \div 2)}})

\* The number a scanned decimal stands for, if the scan ended in a number.
ParseDecimal(sign, st) ==
    IF (st.phase \in {"int", "frac"} /\ st.nd >= 1) \/ st.phase = "expdigits"
    THEN [ok |-> TRUE,
          v |-> IF st.esign * st.e >= st.nf
                THEN Int2Num(sign * st.mant * Pow10(st.esign * st.e - st.nf))
                ELSE Norm(sign * st.mant, Pow10(st.nf - st.esign * st.e))]
    ELSE [ok |-> FALSE, v |-> Int2Num(0)]

ParseUnsigned(sign, body) ==
    IF Len(body) \in {3, 8} /\ Lower(body) \in {"inf", "infinity"}
    THEN [ok |-> TRUE, v |-> Inf(sign)]
    ELSE IF Len(body) = 3 /\ Lower(body) = "nan" THEN [ok |-> TRUE, v |-> NaN]
    ELSE ParseDecimal(sign, DecFold(DecInit, body, 1, Len(body)))

\* str::parse::<f64>: [ok |-> whether s is a number, v |-> the number].
ParseNumber(s) ==
    ParseUnsigned(IF s # "" /\ Head(s) = "-" THEN -1 ELSE 1,
                  IF s # "" /\ Head(s) \in {"+", "-"} THEN Tail(s) ELSE s)

\* Result::unwrap_or(0.0) of a parsed number.
UnwrapOr0(p) == IF p.ok THEN p.v ELSE Int2Num(0)

-----------------------------------------------------------------------------
(* enum Type: the values, and their coercions *)

Number(v) == [t |-> "Number", n |-> v.n, d |-> v.d, s |-> "", l |-> << >>]
String(s) == [t |-> "String", n |-> 0, d |-> 1, s |-> s, l |-> << >>]
Bool(b) == [t |-> "Bool", n |-> IF b THEN 1 ELSE 0, d |-> 1, s |-> "", l |-> << >>]
List(l) == [t |-> "List", n |-> 0, d |-> 1, s |-> "", l |-> l]
Error(e) == [t |-> "Error", n |-> 0, d |-> 1, s |-> e, l |-> << >>]
\* An image; its Mat is opaque to the interpreter.
Image == [t |-> "Image", n |-> 0, d |-> 1, s |-> "", l |-> << >>]

NumOf(v) == [n |-> v.n, d |-> v.d]
BoolOf(v) == v.n = 1

\* Vec<String>::join(sep).
RECURSIVE Join(_, _)
Join(strs, sep) ==
    IF strs = << >> THEN ""
    ELSE IF Len(strs) = 1 THEN strs[1]
    ELSE strs[1] \o sep \o Join(Tail(strs), sep)

\* str::parse::<bool>, with the default the caller gives.
ParseBool(s, default) ==
    IF s = "true" THEN TRUE ELSE IF s = "false" THEN FALSE ELSE default

RECURSIVE display(_)
display(v) ==
    CASE v.t = "Number" -> NumToString(NumOf(v))
      [] v.t = "String" -> "(" \o v.s \o ")"
      [] v.t = "Bool" -> IF BoolOf(v) THEN "true" ELSE "false"
      [] v.t = "List" ->
            "[" \o Join([i \in 1..Len(v.l) |-> display(v.l[i])], " ") \o "]"
      [] v.t = "Error" -> "error:" \o v.s
      [] v.t = "Image" -> "{Image}"

get_string(v) ==
    CASE v.t = "String" -> v.s
      [] v.t = "Number" -> NumToString(NumOf(v))
      [] v.t = "Bool" -> IF BoolOf(v) THEN "true" ELSE "false"
      [] v.t = "List" -> display(List(v.l))
      [] v.t = "Error" -> "error:" \o v.s
      [] v.t = "Image" -> "{Image}"

get_number(v) ==
    CASE v.t = "String" -> UnwrapOr0(ParseNumber(v.s))
      [] v.t = "Number" -> NumOf(v)
      [] v.t = "Bool" -> IF BoolOf(v) THEN Int2Num(1) ELSE Int2Num(0)
      [] v.t = "List" -> Int2Num(Len(v.l))
      [] v.t = "Error" -> UnwrapOr0(ParseNumber(v.s))
      [] v.t = "Image" -> Int2Num(1)

get_bool(v) ==
    CASE v.t = "String" -> v.s # ""
      [] v.t = "Number" -> NumOf(v) # Int2Num(0)
      [] v.t = "Bool" -> BoolOf(v)
      [] v.t = "List" -> v.l # << >>
      [] v.t = "Error" -> ParseBool(v.s, FALSE)
      [] v.t = "Image" -> TRUE

\* The mutation of get_list that wraps every value in a list of one.
get_list_of_one(v) == <<v>>

get_list(v) ==
    CASE v.t = "String" -> [i \in 1..Len(v.s) |-> String(CharAt(v.s, i))]
      [] v.t = "Number" -> <<v>>
      [] v.t = "Bool" -> <<v>>
      [] v.t = "List" -> v.l
      [] v.t = "Error" -> <<v>>
      [] v.t = "Image" -> << >>

-----------------------------------------------------------------------------
(* Executor::analyze_syntax: the tokenizer *)

\* The tokenizer's locals before the first character.
TokInit ==
    [syntax |-> << >>, buffer |-> "", brackets |-> 0, parentheses |-> 0,
     braces |-> 0, hash |-> FALSE, escape |-> FALSE]

\* The buffer after a character that no earlier arm of the match took.
OtherChar(st, c) ==
    IF st.parentheses = 0 /\ st.brackets = 0 /\ ~st.hash
    THEN IF st.escape
         THEN CASE c = "n" -> st.buffer \o "\\n"
                [] c = "t" -> st.buffer \o "\\t"
                [] c = "r" -> st.buffer \o "\\r"
                [] OTHER -> st.buffer \o c
         ELSE st.buffer \o c
    ELSE IF st.escape THEN st.buffer \o "\\" \o c ELSE st.buffer \o c

\* The mutation of TokStep that knows no blocks: the arms of { and } are
\* missing, and a space inside a block ends the token.
TokStepNoBlocks(st, c) ==
    CASE c = "\\" /\ ~st.escape -> [st EXCEPT !.escape = TRUE]
      [] c = "(" /\ ~st.hash /\ ~st.escape ->
            [st EXCEPT !.brackets = @ + 1, !.buffer = @ \o "("]
      [] c = ")" /\ ~st.hash /\ ~st.escape ->
            [st EXCEPT !.brackets = @ - 1, !.buffer = @ \o ")"]
      [] c = "#" /\ ~st.escape ->
            [st EXCEPT !.hash = ~@, !.buffer = @ \o "#"]
      [] c = "[" /\ ~st.hash /\ st.brackets = 0 /\ ~st.escape ->
            [st EXCEPT !.parentheses = @ + 1, !.buffer = @ \o "["]
      [] c = "]" /\ ~st.hash /\ st.brackets = 0 /\ ~st.escape ->
            [st EXCEPT !.parentheses = @ - 1, !.buffer = @ \o "]"]
      [] c = " " /\ ~st.hash /\ st.parentheses = 0 /\ st.brackets = 0
                 /\ ~st.escape ->
            IF st.buffer # ""
            THEN [st EXCEPT !.syntax = Append(@, st.buffer), !.buffer = ""]
            ELSE st
      [] OTHER -> [st EXCEPT !.buffer = OtherChar(st, c), !.escape = FALSE]

\* One turn of the loop over code.chars(): the first arm that matches.
TokStep(st, c) ==
    CASE c = "\\" /\ ~st.escape -> [st EXCEPT !.escape = TRUE]
      [] c = "(" /\ ~st.hash /\ ~st.escape ->
            [st EXCEPT !.brackets = @ + 1, !.buffer = @ \o "("]
      [] c = ")" /\ ~st.hash /\ ~st.escape ->
            [st EXCEPT !.brackets = @ - 1, !.buffer = @ \o ")"]
      [] c = "{" /\ ~st.hash /\ st.brackets = 0 /\ ~st.escape ->
            [st EXCEPT !.braces = @ + 1, !.buffer = @ \o "{"]
      [] c = "}" /\ ~st.hash /\ st.brackets = 0 /\ ~st.escape ->
            [st EXCEPT !.braces = @ - 1, !.buffer = @ \o "}"]
      [] c = "#" /\ ~st.hash /\ ~st.escape ->
            [st EXCEPT !.hash = TRUE, !.buffer = @ \o "#"]
      [] c = "#" /\ st.hash /\ ~st.escape ->
            [st EXCEPT !.hash = FALSE, !.buffer = @ \o "#"]
      [] c = "[" /\ ~st.hash /\ st.brackets = 0 /\ ~st.escape ->
            [st EXCEPT !.parentheses = @ + 1, !.buffer = @ \o "["]
      [] c = "]" /\ ~st.hash /\ st.brackets = 0 /\ ~st.escape ->
            [st EXCEPT !.parentheses = @ - 1, !.buffer = @ \o "]"]
      [] c = " " /\ ~st.hash /\ st.parentheses = 0 /\ st.brackets = 0
                 /\ ~st.escape /\ st.braces = 0 ->
            IF st.buffer # ""
            THEN [st EXCEPT !.syntax = Append(@, st.buffer), !.buffer = ""]
            ELSE st
      [] OTHER -> [st EXCEPT !.buffer = OtherChar(st, c), !.escape = FALSE]

\* code.replace(['\n', '\t', '\r', U+3000], " "), character by character (the
\* full-width space U+3000 is outside the model's ASCII alphabet).
Normalize(c) == IF c \in {"\n", "\t", "\r"} THEN " " ELSE c

\* The loop over the characters lo..hi of code, from the locals st: the
\* first half of the range, then the second half from where the first ended.
RECURSIVE TokFold(_, _, _, _)
TokFold(st, code, lo, hi) ==
    IF lo > hi THEN st
    ELSE IF lo = hi THEN The({TokStep(v, Normalize(CharAt(code, lo))) : v \in {st}})
    ELSE The({TokFold(half, code, (lo + hi) \div 2 + 1, hi) :
                 half \in {TokFold(st, code, lo, (lo + hi) \div 2)}})

\* The mutation of Flush that makes a token of the buffer even when it is
\* empty.
FlushAlways(st) == Append(st.syntax, st.buffer)

\* The tokens once the loop has ended: the buffer left over is the last one.
Flush(st) == IF st.buffer # "" THEN Append(st.syntax, st.buffer) ELSE st.syntax

analyze_syntax(code) == Flush(TokFold(TokInit, code, 1, Len(code)))

-----------------------------------------------------------------------------
(* The text-literal pass of evaluate_program *)

UnescInit ==
    [buffer |-> "", brackets |-> 0, parentheses |-> 0, hash |-> FALSE,
     escape |-> FALSE]

UnescStep(st, c) ==
    CASE c = "\\" /\ ~st.escape -> [st EXCEPT !.escape = TRUE]
      [] c = "(" /\ ~st.hash /\ ~st.escape ->
            [st EXCEPT !.brackets = @ + 1, !.buffer = @ \o "("]
      [] c = ")" /\ ~st.hash /\ ~st.escape ->
            [st EXCEPT !.brackets = @ - 1, !.buffer = @ \o ")"]
      [] c = "#" /\ ~st.hash /\ ~st.escape ->
            [st EXCEPT !.hash = TRUE, !.buffer = @ \o "#"]
      [] c = "#" /\ st.hash /\ ~st.escape ->
            [st EXCEPT !.hash = FALSE, !.buffer = @ \o "#"]
      [] c = "[" /\ ~st.hash /\ st.brackets = 0 /\ ~st.escape ->
            [st EXCEPT !.parentheses = @ + 1, !.buffer = @ \o "["]
      [] c = "]" /\ ~st.hash /\ st.brackets = 0 /\ ~st.escape ->
            [st EXCEPT !.parentheses = @ - 1, !.buffer = @ \o "]"]
      [] OTHER -> [st EXCEPT !.buffer = OtherChar(st, c), !.escape = FALSE]

RECURSIVE UnescFold(_, _, _, _)
UnescFold(st, s, lo, hi) ==
    IF lo > hi THEN st
    ELSE IF lo = hi THEN The({UnescStep(v, CharAt(s, lo)) : v \in {st}})
    ELSE The({UnescFold(half, s, (lo + hi) \div 2 + 1, hi) :
                 half \in {UnescFold(st, s, lo, (lo + hi) \div 2)}})

\* The mutation of Unescape that takes the characters as they are.
Inner(token) == SubSeq(token, 2, Len(token) - 1)

\* The Text a token ( ... ) stands for: the pass over token[1..len-1].
Unescape(token) == UnescFold(UnescInit, token, 2, Len(token) - 1).buffer


-----------------------------------------------------------------------------
(* struct Executor, and the threads that evaluate on Executors *)

\* The printable characters of ASCII in the order of their bytes, but for
\* the backquote.
Ascii ==
    " !\"#$%&'()*+,-./0123456789:;<=>?@ABCDEFGHIJKLMNOPQRSTUVWXYZ[\\]^_abcdefghijklmnopqrstuvwxyz{|}~"

\* The place of a character in that order.
Byte(c) == CHOOSE i \in 1..Len(Ascii) : CharAt(Ascii, i) = c

\* Ord for String: a <= b in the lexicographic order of the bytes.
RECURSIVE StrLeq(_, _)
StrLeq(a, b) ==
    IF a = "" THEN TRUE
    ELSE IF b = "" THEN FALSE
    ELSE IF Head(a) = Head(b) THEN StrLeq(Tail(a), Tail(b))
    ELSE Byte(Head(a)) < Byte(Head(b))

\* The sorted strings with one more string put in its place.
RECURSIVE Place(_, _)
Place(sorted, s) ==
    IF sorted = << >> THEN <<s>>
    ELSE IF StrLeq(sorted[Len(sorted)], s) THEN Append(sorted, s)
    ELSE The({Append(front, sorted[Len(sorted)]) :
                 front \in {Place(SubSeq(sorted, 1, Len(sorted) - 1), s)}})

\* Vec<String>::sort.
RECURSIVE SortStrings(_)
SortStrings(strs) ==
    IF strs = << >> THEN << >>
    ELSE The({Place(front, strs[Len(strs)]) :
                 front \in {SortStrings(SubSeq(strs, 1, Len(strs) - 1))}})

MaxThreads == 2

\* Thread 0 is the main thread; the others are the threads `thread` spawns.
Threads == 0..MaxThreads
Main == 0

VARIABLES
    stack,      \* Executor.stack of each Executor instance
    memory,     \* Executor.memory of each Executor instance
    mode,       \* Executor.mode of each Executor instance
    executor,   \* the Executor instance each thread evaluates on
    output,     \* the texts written to the standard output by print, println
    frames,     \* each thread's active evaluate_program calls, innermost last
    status,     \* each thread: "idle" (not spawned), "run", "done", "panicked"
    parent,     \* the thread that spawned each thread
    proc,       \* the process: "running", "ended" (main returned), "exited"
                \* (by `exit`, by a panic of the main thread, or aborted)
    script,     \* history: the script main was started on
    last        \* history: the step taken last, and the state it started in

vars ==
    <<stack, memory, mode, executor, output, frames, status, parent, proc, script,
      last>>

\* HashMap::new().
EmptyMemory == [name \in {} |-> String("")]

\* The mutation of Insert that leaves a name that is bound as it is.
InsertIfAbsent(mem, name, value) ==
    [k \in DOMAIN mem \cup {name} |-> IF k \in DOMAIN mem THEN mem[k] ELSE value]

\* HashMap::entry(name).and_modify(|v| *v = value).or_insert(value).
Insert(mem, name, value) ==
    [k \in DOMAIN mem \cup {name} |-> IF k = name THEN value ELSE mem[k]]

\* HashMap::remove(name).
Remove(mem, name) == [k \in DOMAIN mem \ {name} |-> mem[k]]

\* The mutation of pop_stack that substitutes Number(0) for a missing value.
pop_stack_zero(stk) ==
    IF stk # << >>
    THEN [value |-> stk[Len(stk)], stack |-> SubSeq(stk, 1, Len(stk) - 1)]
    ELSE [value |-> Number(Int2Num(0)), stack |-> << >>]

\* Executor::pop_stack: the top value, or an empty String when there is none.
pop_stack(stk) ==
    IF stk # << >>
    THEN [value |-> stk[Len(stk)], stack |-> SubSeq(stk, 1, Len(stk) - 1)]
    ELSE [value |-> String(""), stack |-> << >>]

\* The k-th pop_stack of a command that starts on the stack stk: the value
\* it returns, and the stack it leaves.
RECURSIVE Pop(_, _)
Pop(stk, k) ==
    IF k = 1 THEN pop_stack(stk) ELSE pop_stack(Pop(stk, k - 1).stack)

\* What the caller of an evaluate_program call does when the call returns:
\* the locals of the command that made the call.  For the loops over a List,
\* i is the number of the element the code is evaluated for.  For the loop
\* of `range`, which calls nothing, at is the f64 it counts in (its i),
\* result_list the Vec it fills (its range), and the code is empty.
NoCont ==
    [op |-> "none", cond |-> "", code |-> "", old_len |-> 0, vars |-> "",
     acc |-> "", list |-> << >>, i |-> 0, result_list |-> << >>,
     at |-> Int2Num(0), max |-> Int2Num(0), step |-> Int2Num(0)]
TopCont == [NoCont EXCEPT !.op = "top"]

\* A call evaluate_program(code) that a token or a return makes, and what its
\* caller does afterwards.
Call(code, k) == [code |-> code, k |-> k]

\* An active evaluate_program call: the tokens still to evaluate.  With no
\* token, the loop of a command that is at the head of a turn.
Frame(call) == [toks |-> analyze_syntax(call.code), k |-> call.k]

Frames(calls) == [j \in 1..Len(calls) |-> Frame(calls[j])]

\* What a token or a return does to its Executor: the new stack and memory,
\* and the evaluate_program calls it makes.
Outcome(stk, mem, calls) == [stack |-> stk, memory |-> mem, calls |-> calls]

-----------------------------------------------------------------------------
(* Executor::execute_command *)

CommandNames ==
    {"add", "sub", "mul", "div", "mod", "pow", "round", "sin", "cos", "tan",
     "exp", "and", "or", "not", "equal", "less", "rand", "shuffle", "repeat",
     "decode", "encode", "concat", "replace", "split", "case", "join", "find",
     "regex", "write-file", "read-file", "input", "print", "println",
     "args-cmd", "eval", "if", "while", "thread", "exit", "get", "set", "del",
     "append", "insert", "index", "sort", "reverse", "for", "range", "len",
     "map", "filter", "reduce", "pop", "size-stack", "get-stack", "var",
     "type", "cast", "mem", "free", "copy", "swap", "now-time", "sleep",
     "open-image", "show-image", "to-grayscale", "invert-color", "flip-image",
     "gaussian-blur", "resize-image", "edge-detect", "color-map",
     "morphology-operation", "histogram-equalization", "save-image",
     "to-sharpe"}

\* The mutation of Arith that takes the operands in the order they are popped.
ArithSwapped(command, a, b) ==
    CASE command = "add" -> NumAdd(b, a)
      [] command = "sub" -> NumSub(b, a)
      [] command = "mul" -> NumMul(b, a)
      [] command = "div" -> NumDiv(b, a)
      [] command = "mod" -> NumMod(b, a)
      [] command = "pow" -> NumPow(b, a)

\* add, sub, mul, div, mod, pow: the f64 pushed for the operands a and b.
Arith(command, a, b) ==
    CASE command = "add" -> NumAdd(a, b)
      [] command = "sub" -> NumSub(a, b)
      [] command = "mul" -> NumMul(a, b)
      [] command = "div" -> NumDiv(a, b)
      [] command = "mod" -> NumMod(a, b)
      [] command = "pow" -> NumPow(a, b)

ArithCommands == {"add", "sub", "mul", "div", "mod", "pow"}

\* The value a two-operand command pushes; b was popped first, then a.
BinaryResult(command, a, b) ==
    CASE command \in ArithCommands ->
            The({Number(Arith(command, x, y)) :
                    x \in {get_number(a)}, y \in {get_number(b)}})
      [] command = "and" -> Bool(get_bool(a) /\ get_bool(b))
      [] command = "or" -> Bool(get_bool(a) \/ get_bool(b))
      [] command = "equal" -> Bool(get_string(a) = get_string(b))
      [] command = "less" ->
            The({Bool(NumLess(x, y)) : x \in {get_number(a)}, y \in {get_number(b)}})
      [] command = "concat" -> String(get_string(a) \o get_string(b))

\* The two-operand commands: two pops, one push.
Binary(command, stk, mem) ==
    Outcome(Append(Pop(stk, 2).stack,
                   BinaryResult(command, Pop(stk, 2).value, Pop(stk, 1).value)),
            mem, << >>)

BinaryCommands == ArithCommands \cup {"and", "or", "equal", "less", "concat"}

\* The mutation of Branch that takes the code of else whatever the condition.
BranchElse(condition, code_if, code_else) == code_else

\* The code `if` evaluates.
Branch(condition, code_if, code_else) ==
    IF condition THEN code_if ELSE code_else

\* The commands of control that call evaluate_program.
Control(command, stk, mem) ==
    CASE command = "eval" ->
            Outcome(Pop(stk, 1).stack, mem,
                    <<Call(get_string(Pop(stk, 1).value), NoCont)>>)
      [] command = "if" ->
            Outcome(Pop(stk, 3).stack, mem,
                    <<Call(Branch(get_bool(Pop(stk, 1).value),
                                  get_string(Pop(stk, 3).value),
                                  get_string(Pop(stk, 2).value)), NoCont)>>)
      [] command = "while" ->
            Outcome(Pop(stk, 2).stack, mem,
                    <<Call(get_string(Pop(stk, 1).value),
                           [NoCont EXCEPT
                               !.op = "whilecond",
                               !.cond = get_string(Pop(stk, 1).value),
                               !.code = get_string(Pop(stk, 2).value)])>>)

ControlCommands == {"eval", "if", "while"}

\* The mutation of ReduceEnd that leaves the accumulator bound to its value.
ReduceEndKeep(k, stk, mem) ==
    Outcome(Append(stk, IF k.acc \in DOMAIN mem THEN mem[k.acc] ELSE String("")),
            mem, << >>)

\* `reduce`, after the loop: push the value of the accumulator, then bind
\* the accumulator to an empty String.
ReduceEnd(k, stk, mem) ==
    Outcome(Append(stk, IF k.acc \in DOMAIN mem THEN mem[k.acc] ELSE String("")),
            Insert(mem, k.acc, String("")), << >>)

\* The mutation of LoopEnd in which the loop variable goes out of scope.
LoopEndScoped(k, stk, mem) ==
    CASE k.op = "for" -> Outcome(stk, Remove(mem, k.vars), << >>)
      [] k.op \in {"map", "filter"} ->
            Outcome(Append(stk, List(k.result_list)), Remove(mem, k.vars), << >>)
      [] k.op = "reduce" -> ReduceEnd(k, stk, mem)

\* for, map, filter, reduce, after the loop over the List.
LoopEnd(k, stk, mem) ==
    CASE k.op = "for" -> Outcome(stk, mem, << >>)
      [] k.op \in {"map", "filter"} ->
            Outcome(Append(stk, List(k.result_list)), mem, << >>)
      [] k.op = "reduce" -> ReduceEnd(k, stk, mem)

\* The mutation of Iterate that takes the elements from the last to the first.
IterateBackwards(k, stk, mem) ==
    IF k.i < Len(k.list)
    THEN Outcome(stk, Insert(mem, k.vars, k.list[Len(k.list) - k.i]),
                 <<Call(k.code, [k EXCEPT !.i = @ + 1])>>)
    ELSE LoopEnd(k, stk, mem)

\* One turn of list.iter(), after k.i elements: bind the variable to the
\* next element and evaluate the code, or leave the loop.
Iterate(k, stk, mem) ==
    IF k.i < Len(k.list)
    THEN Outcome(stk, Insert(mem, k.vars, k.list[k.i + 1]),
                 <<Call(k.code, [k EXCEPT !.i = @ + 1])>>)
    ELSE LoopEnd(k, stk, mem)

\* The commands that evaluate a code for each element of a List: their pops,
\* and the first turn of their loop.
Functional(command, stk, mem) ==
    IF command = "reduce"
    THEN Iterate([NoCont EXCEPT
                     !.op = "reduce",
                     !.code = get_string(Pop(stk, 1).value),
                     !.vars = get_string(Pop(stk, 2).value),
                     !.acc = get_string(Pop(stk, 4).value),
                     !.list = get_list(Pop(stk, 5).value)],
                 Pop(stk, 5).stack,
                 Insert(mem, get_string(Pop(stk, 4).value), Pop(stk, 3).value))
    ELSE Iterate([NoCont EXCEPT
                     !.op = command,
                     !.code = get_string(Pop(stk, 1).value),
                     !.vars = get_string(Pop(stk, 2).value),
                     !.list = get_list(Pop(stk, 3).value)],
                 Pop(stk, 3).stack, mem)

FunctionalCommands == {"for", "map", "filter", "reduce"}

\* The mutation of Keep that collects the value popped, not the element.
KeepValue(result_list, x, value) ==
    IF get_bool(value) THEN Append(result_list, value) ELSE result_list

\* `filter`: the result list after the code has been evaluated for x and the
\* value has been popped.
Keep(result_list, x, value) ==
    IF get_bool(value) THEN Append(result_list, x) ELSE result_list

\* for, map, filter, reduce, once the code has been evaluated for the
\* element k.i: what the rest of the loop body does, and the next turn.
Collect(k, stk, mem) ==
    CASE k.op = "for" -> Iterate(k, stk, mem)
      [] k.op = "map" ->
            Iterate([k EXCEPT !.result_list = Append(@, Pop(stk, 1).value)],
                    Pop(stk, 1).stack, mem)
      [] k.op = "filter" ->
            Iterate([k EXCEPT
                        !.result_list = Keep(@, k.list[k.i], Pop(stk, 1).value)],
                    Pop(stk, 1).stack, mem)
      [] k.op = "reduce" ->
            Iterate(k, Pop(stk, 1).stack, Insert(mem, k.acc, Pop(stk, 1).value))

\* f64 `as usize`: the fraction is dropped, NaN and the negative numbers
\* give 0.  Infinity gives usize::MAX, which lies outside the integers of
\* the model.
AsUsize(x) ==
    IF IsNaN(x) \/ x.n < 0 THEN 0
    ELSE IF IsInf(x) THEN Undefined("usize::MAX")
    ELSE x.n \div x.d

\* The stack after "Error! Index specification is out of range".
IndexOutOfRange(stk) == Append(stk, Error("index-out-range"))

\* `get`: the stack it leaves for the index and the list popped off stk.
Get(stk, index, list) ==
    IF Len(list) > index THEN Append(stk, list[index + 1])
    ELSE IndexOutOfRange(stk)

\* `set`.
Set(stk, index, list, value) ==
    IF Len(list) > index THEN Append(stk, List([list EXCEPT ![index + 1] = value]))
    ELSE IndexOutOfRange(stk)

\* Vec::remove(index).
VecRemove(list, index) ==
    SubSeq(list, 1, index) \o SubSeq(list, index + 2, Len(list))

\* `del`.
Del(stk, index, list) ==
    IF Len(list) > index THEN Append(stk, List(VecRemove(list, index)))
    ELSE IndexOutOfRange(stk)

\* Vec::insert(index, data), which panics when index > len.
VecInsert(list, index, data) ==
    IF index > Len(list) THEN Undefined("panic")
    ELSE SubSeq(list, 1, index) \o <<data>> \o SubSeq(list, index + 1, Len(list))

\* The mutation of IndexOf that reports the last element that matches.
IndexOfLast(list, target) ==
    IF \E j \in 1..Len(list) : get_string(list[j]) = target
    THEN Number(Int2Num((CHOOSE j \in 1..Len(list) :
                            /\ get_string(list[j]) = target
                            /\ \A m \in (j + 1)..Len(list) :
                                  get_string(list[m]) # target) - 1))
    ELSE Error("item-not-found")

\* `index`: the value pushed by the loop over list.iter().enumerate(), which
\* returns at the first item whose string is the target.
IndexOf(list, target) ==
    IF \E j \in 1..Len(list) : get_string(list[j]) = target
    THEN Number(Int2Num((CHOOSE j \in 1..Len(list) :
                            /\ get_string(list[j]) = target
                            /\ \A m \in 1..(j - 1) :
                                  get_string(list[m]) # target) - 1))
    ELSE Error("item-not-found")

\* The commands that take a List and an index.
Indexed(command, stk, mem) ==
    CASE command = "get" ->
            Outcome(Get(Pop(stk, 2).stack, AsUsize(get_number(Pop(stk, 1).value)),
                        get_list(Pop(stk, 2).value)),
                    mem, << >>)
      [] command = "set" ->
            Outcome(Set(Pop(stk, 3).stack, AsUsize(get_number(Pop(stk, 2).value)),
                        get_list(Pop(stk, 3).value), Pop(stk, 1).value),
                    mem, << >>)
      [] command = "del" ->
            Outcome(Del(Pop(stk, 2).stack, AsUsize(get_number(Pop(stk, 1).value)),
                        get_list(Pop(stk, 2).value)),
                    mem, << >>)
      [] command = "index" ->
            Outcome(Append(Pop(stk, 2).stack,
                           IndexOf(get_list(Pop(stk, 2).value),
                                   get_string(Pop(stk, 1).value))),
                    mem, << >>)
      [] command = "insert" ->
            Outcome(Append(Pop(stk, 3).stack,
                           List(VecInsert(get_list(Pop(stk, 3).value),
                                          AsUsize(get_number(Pop(stk, 2).value)),
                                          Pop(stk, 1).value))),
                    mem, << >>)

IndexedCommands == {"get", "set", "del", "insert", "index"}

\* `range`, at the head of a turn of `while i < max`: push i and add the
\* step, or leave the loop and push the List.
RangeLoop(k, stk, mem) ==
    IF NumLess(k.at, k.max)
    THEN Outcome(stk, mem,
                 <<Call("", [k EXCEPT !.result_list = Append(@, Number(k.at)),
                                      !.at = NumAdd(k.step, k.at)])>>)
    ELSE Outcome(Append(stk, List(k.result_list)), mem, << >>)

\* `range`: the pops, and the locals its loop starts on.
Range(command, stk, mem) ==
    Outcome(Pop(stk, 3).stack, mem,
            <<Call("", [NoCont EXCEPT
                           !.op = "range",
                           !.step = get_number(Pop(stk, 1).value),
                           !.max = get_number(Pop(stk, 2).value),
                           !.at = get_number(Pop(stk, 3).value)])>>)

\* `sort`: the strings of the elements, sorted, each pushed as a String.
Sort(command, stk, mem) ==
    Outcome(Append(Pop(stk, 1).stack,
                   The({List([j \in 1..Len(strs) |-> String(strs[j])]) :
                           strs \in {SortStrings(
                               The({[j \in 1..Len(list) |-> get_string(list[j])] :
                                       list \in {get_list(Pop(stk, 1).value)}}))}})),
            mem, << >>)

\* The number of values the memory of the process has room for in a Vec.
MaxRange == 3

\* `insert` on this stack panics in Vec::insert.
InsertPanics(stk) ==
    AsUsize(get_number(Pop(stk, 2).value)) > Len(get_list(Pop(stk, 3).value))

\* The commands of memory management.
Memory(command, stk, mem) ==
    CASE command = "pop" -> Outcome(Pop(stk, 1).stack, mem, << >>)
      [] command = "size-stack" ->
            Outcome(Append(stk, Number(Int2Num(Len(stk)))), mem, << >>)
      [] command = "get-stack" -> Outcome(Append(stk, List(stk)), mem, << >>)
      [] command = "var" ->
            Outcome(Pop(stk, 2).stack,
                    Insert(mem, get_string(Pop(stk, 1).value), Pop(stk, 2).value),
                    << >>)
      [] command = "free" ->
            Outcome(Pop(stk, 1).stack,
                    Remove(mem, get_string(Pop(stk, 1).value)), << >>)
      [] command = "copy" ->
            Outcome(Pop(stk, 1).stack \o <<Pop(stk, 1).value, Pop(stk, 1).value>>,
                    mem, << >>)
      [] command = "swap" ->
            Outcome(Pop(stk, 2).stack \o <<Pop(stk, 1).value, Pop(stk, 2).value>>,
                    mem, << >>)

MemoryCommands == {"pop", "size-stack", "get-stack", "var", "free", "copy", "swap"}

\* `not` and `len`.
Unary(command, stk, mem) ==
    CASE command = "not" ->
            Outcome(Append(Pop(stk, 1).stack, Bool(~get_bool(Pop(stk, 1).value))),
                    mem, << >>)
      [] command = "len" ->
            Outcome(Append(Pop(stk, 1).stack,
                           Number(Int2Num(Len(get_list(Pop(stk, 1).value))))),
                    mem, << >>)

UnaryCommands == {"not", "len"}

\* The mutation of Output that, in Debug mode, leaves the value on the stack.
OutputPeek(command, md, stk) ==
    [stack |-> IF md = "Debug" THEN stk ELSE Pop(stk, 1).stack,
     text |-> get_string(Pop(stk, 1).value)]

\* `print` and `println` in mode md: the stack they leave and the text they
\* write to the standard output.
Output(command, md, stk) ==
    LET a == Replace(Replace(Replace(get_string(Pop(stk, 1).value),
                                     "\\n", "\n"),
                             "\\t", "\t"),
                     "\\r", "\r")
    IN  [stack |-> Pop(stk, 1).stack,
         text |-> IF md = "Debug" THEN "[Output]: " \o a \o "\n"
                  ELSE IF command = "print" THEN a
                  ELSE a \o "\n"]

OutputCommands == {"print", "println"}

\* The orders in which the keys of a HashMap can be iterated: the names, each
\* once, as Strings.
Orders(names) ==
    {[j \in 1..Cardinality(names) |-> String(order[j])] :
        order \in {f \in [1..Cardinality(names) -> names] :
                      \A i, j \in 1..Cardinality(names) : f[i] = f[j] => i = j}}

\* The mutation of Choose that can also give the list itself.
ChooseOrAll(list) == {List(list)} \cup {list[j] : j \in 1..Len(list)}

\* `rand`: the values list.choose(rng) can give, and the list when it gives
\* None.
Choose(list) ==
    IF list = << >> THEN {List(list)} ELSE {list[j] : j \in 1..Len(list)}

\* The commands whose result is not determined by the stack and the memory,
\* and the outcomes they can have.  `mem` pushes the keys of the memory in
\* the order of the HashMap.
Choices(command, stk, mem) ==
    CASE command = "mem" ->
            {Outcome(Append(stk, List(keys)), mem, << >>) :
                keys \in Orders(DOMAIN mem)}
      [] command = "rand" ->
            {Outcome(Append(Pop(stk, 1).stack, result), mem, << >>) :
                result \in Choose(get_list(Pop(stk, 1).value))}

ChoiceCommands == {"mem", "rand"}

\* `thread` and `exit` act on the threads and on the process: they are the
\* actions Thread and Exit below.
ProcessCommands == {"thread", "exit"}

\* The mutation of Fallback that reports an unknown command as an Error.
FallbackError(command) == Error(command)

\* The last arm of the match: the value pushed for a name that is no command.
Fallback(command) == String(command)

\* `type`: the name of the variant of the value popped.
TypeName(v) ==
    CASE v.t = "Number" -> "number"
      [] v.t = "String" -> "string"
      [] v.t = "Bool" -> "bool"
      [] v.t = "List" -> "list"
      [] v.t = "Error" -> "error"
      [] v.t = "Image" -> "image"

\* `cast`: the value pushed for the type named.
Cast(types, value) ==
    CASE types = "number" -> Number(get_number(value))
      [] types = "string" -> String(get_string(value))
      [] types = "bool" -> Bool(get_bool(value))
      [] types = "list" -> List(get_list(value))
      [] types = "error" -> Error(get_string(value))
      [] OTHER -> value

\* The match of execute_command.  A command of the source that the model
\* does not cover is undefined here.
execute_command(command, stk, mem) ==
    CASE command \in BinaryCommands -> Binary(command, stk, mem)
      [] command \in UnaryCommands -> Unary(command, stk, mem)
      [] command \in ControlCommands -> Control(command, stk, mem)
      [] command \in MemoryCommands -> Memory(command, stk, mem)
      [] command \in FunctionalCommands -> Functional(command, stk, mem)
      [] command \in IndexedCommands -> Indexed(command, stk, mem)
      [] command = "range" -> Range(command, stk, mem)
      [] command = "sort" -> Sort(command, stk, mem)
      [] command = "type" ->
            Outcome(Append(Pop(stk, 1).stack,
                           String(TypeName(Pop(stk, 1).value))), mem, << >>)
      [] command = "cast" ->
            Outcome(Append(Pop(stk, 2).stack,
                           Cast(get_string(Pop(stk, 1).value), Pop(stk, 2).value)),
                    mem, << >>)
      \* imread gives a Mat, an empty one for a file it cannot read.
      [] command = "open-image" ->
            Outcome(Append(Pop(stk, 1).stack, Image), mem, << >>)
      [] command \in CommandNames -> Undefined(command)
      [] OTHER -> Outcome(Append(stk, Fallback(command)), mem, << >>)

-----------------------------------------------------------------------------
(* Executor::evaluate_program *)

Wrapped(token, open, close) ==
    CharAt(token, 1) = open /\ CharAt(token, Len(token)) = close

\* The mutation of Classify in which a command name is looked up in the
\* command table before the memory.
ClassifyCommandFirst(token, mem) ==
    IF ParseNumber(token).ok THEN "number"
    ELSE IF token = "true" \/ token = "false" THEN "bool"
    ELSE IF Wrapped(token, "(", ")") THEN "string"
    ELSE IF Wrapped(token, "[", "]") THEN "list"
    ELSE IF StartsWith(token, "error:") THEN "error"
    ELSE IF token \in CommandNames THEN "command"
    ELSE IF token \in DOMAIN mem THEN "variable"
    ELSE IF Wrapped(token, "#", "#") THEN "comment"
    ELSE "command"

\* The branch of the if-chain that takes the token.
Classify(token, mem) ==
    IF ParseNumber(token).ok THEN "number"
    ELSE IF token = "true" \/ token = "false" THEN "bool"
    ELSE IF Wrapped(token, "(", ")") THEN "string"
    ELSE IF Wrapped(token, "[", "]") THEN "list"
    ELSE IF StartsWith(token, "error:") THEN "error"
    ELSE IF token \in DOMAIN mem THEN "variable"
    ELSE IF Wrapped(token, "#", "#") THEN "comment"
    ELSE "command"

\* The tag of the Error an error: token pushes.
ErrorTag(token) == Replace(token, "error:", "")

\* One turn of the loop over the tokens, for a token of the given class.
Evaluate(class, token, stk, mem) ==
    CASE class = "number" ->
            Outcome(Append(stk, Number(ParseNumber(token).v)), mem, << >>)
      [] class = "bool" ->
            Outcome(Append(stk, Bool(ParseBool(token, TRUE))), mem, << >>)
      [] class = "string" ->
            Outcome(Append(stk, String(Unescape(token))), mem, << >>)
      [] class = "list" ->
            Outcome(stk, mem,
                    <<Call(SubSeq(token, 2, Len(token) - 1),
                           [NoCont EXCEPT !.op = "list", !.old_len = Len(stk)])>>)
      [] class = "error" ->
            Outcome(Append(stk, Error(ErrorTag(token))), mem, << >>)
      [] class = "variable" -> Outcome(Append(stk, mem[token]), mem, << >>)
      [] class = "comment" -> Outcome(stk, mem, << >>)
      [] class = "command" -> execute_command(token, stk, mem)

evaluate_token(token, stk, mem) == Evaluate(Classify(token, mem), token, stk, mem)

\* The mutation of CollectList that omits list.reverse().
CollectListPopOrder(old_len, stk) ==
    IF Len(stk) > old_len
    THEN Append(SubSeq(stk, 1, old_len),
                List([j \in 1..(Len(stk) - old_len) |-> stk[Len(stk) + 1 - j]]))
    ELSE Append(stk, List(<< >>))

\* The stack a list literal leaves: one pop_stack for each index in
\* old_len..stack.len(), the popped values reversed into a List.
CollectList(old_len, stk) ==
    IF Len(stk) > old_len
    THEN Append(SubSeq(stk, 1, old_len), List(SubSeq(stk, old_len + 1, Len(stk))))
    ELSE Append(stk, List(<< >>))

\* The mutation of WhileCondition that reads the value the condition left
\* without popping it.
WhileConditionPeek(k, stk, mem) ==
    Outcome(stk, mem,
            IF get_bool(Pop(stk, 1).value)
            THEN <<Call(k.code, [k EXCEPT !.op = "whilebody"])>>
            ELSE << >>)

\* `while`, once the code of the condition has been evaluated: pop a value,
\* and evaluate the body if it is true as a Bool.
WhileCondition(k, stk, mem) ==
    Outcome(Pop(stk, 1).stack, mem,
            IF get_bool(Pop(stk, 1).value)
            THEN <<Call(k.code, [k EXCEPT !.op = "whilebody"])>>
            ELSE << >>)

\* What the caller does once the evaluate_program call it made has returned.
Continue(k, stk, mem) ==
    CASE k.op = "none" -> Outcome(stk, mem, << >>)
      [] k.op = "list" -> Outcome(CollectList(k.old_len, stk), mem, << >>)
      [] k.op = "whilecond" -> WhileCondition(k, stk, mem)
      [] k.op = "whilebody" ->
            Outcome(stk, mem, <<Call(k.cond, [k EXCEPT !.op = "whilecond"])>>)
      [] k.op \in FunctionalCommands -> Collect(k, stk, mem)
      [] k.op = "range" -> RangeLoop(k, stk, mem)

-----------------------------------------------------------------------------
(* The threads *)

\* The mutation of Runnable in which a thread that has spawned waits for the
\* threads it spawned (a join).
RunnableJoined(t) ==
    /\ proc = "running"
    /\ status[t] = "run"
    /\ \A c \in Threads : (c # t /\ parent[c] = t) => status[c] # "run"

\* The mutation of Runnable in which a thread outlives the process.
RunnableDetached(t) == status[t] = "run"

\* A thread runs while the process lives; nothing else holds it back.
Runnable(t) == proc = "running" /\ status[t] = "run"

TopFrame(t) == frames[t][Len(frames[t])]

HasToken(t) == Runnable(t) /\ TopFrame(t).toks # << >>

NextToken(t) == Head(TopFrame(t).toks)

\* The token at hand reaches execute_command as one of these commands.
AtCommand(t, commands) ==
    /\ HasToken(t)
    /\ NextToken(t) \in commands
    /\ Classify(NextToken(t), memory[executor[t]]) = "command"

\* The frames of t once the token at hand is consumed.
Consumed(t) == [frames[t] EXCEPT ![Len(frames[t])].toks = Tail(@)]

\* The frames of t once its innermost call has returned.
Returned(t) == SubSeq(frames[t], 1, Len(frames[t]) - 1)

Record(t, act, tok, k) ==
    [t |-> t, act |-> act, tok |-> tok, k |-> k, depth |-> Len(frames[t]),
     stack |-> stack[executor[t]], memory |-> memory[executor[t]]]

\* The token at hand is a command that panics.
Panics(t) == AtCommand(t, {"insert"}) /\ InsertPanics(stack[executor[t]])

\* A thread evaluates the next token of its innermost evaluate_program call.
Eval(t) ==
    /\ HasToken(t)
    /\ ~AtCommand(t, ProcessCommands)
    /\ ~AtCommand(t, ChoiceCommands)
    /\ ~AtCommand(t, OutputCommands)
    /\ ~Panics(t)
    /\ \E o \in {evaluate_token(NextToken(t), stack[executor[t]],
                                memory[executor[t]])} :
          /\ stack' = [stack EXCEPT ![executor[t]] = o.stack]
          /\ memory' = [memory EXCEPT ![executor[t]] = o.memory]
          /\ frames' = [frames EXCEPT ![t] = Consumed(t) \o Frames(o.calls)]
    /\ last' = Record(t, "eval", NextToken(t), NoCont)
    /\ UNCHANGED <<mode, executor, status, parent, proc, script, output>>

\* The loop of `range` is about to push onto a Vec that fills the memory.
Exhausted(t) ==
    /\ Runnable(t)
    /\ TopFrame(t).k.op = "range"
    /\ NumLess(TopFrame(t).k.at, TopFrame(t).k.max)
    /\ Len(TopFrame(t).k.result_list) >= MaxRange

\* A thread evaluates a token that is a command with more than one possible
\* outcome.
Choice(t) ==
    /\ AtCommand(t, ChoiceCommands)
    /\ \E o \in Choices(NextToken(t), stack[executor[t]], memory[executor[t]]) :
          /\ stack' = [stack EXCEPT ![executor[t]] = o.stack]
          /\ memory' = [memory EXCEPT ![executor[t]] = o.memory]
          /\ frames' = [frames EXCEPT ![t] = Consumed(t) \o Frames(o.calls)]
    /\ last' = Record(t, "eval", NextToken(t), NoCont)
    /\ UNCHANGED <<mode, executor, status, parent, proc, script, output>>

\* A thread evaluates a token that is `print` or `println`.
Write(t) ==
    /\ AtCommand(t, OutputCommands)
    /\ \E o \in {Output(NextToken(t), mode[executor[t]], stack[executor[t]])} :
          /\ stack' = [stack EXCEPT ![executor[t]] = o.stack]
          /\ output' = Append(output, o.text)
    /\ frames' = [frames EXCEPT ![t] = Consumed(t)]
    /\ last' = Record(t, "eval", NextToken(t), NoCont)
    /\ UNCHANGED <<memory, mode, executor, status, parent, proc, script>>

\* An inner evaluate_program call has no token left: it returns to its
\* caller, which goes on; or a loop takes its next turn.
Return(t) ==
    /\ Runnable(t)
    /\ TopFrame(t).toks = << >>
    /\ TopFrame(t).k.op # "top"
    /\ ~Exhausted(t)
    /\ \E o \in {Continue(TopFrame(t).k, stack[executor[t]],
                          memory[executor[t]])} :
          /\ stack' = [stack EXCEPT ![executor[t]] = o.stack]
          /\ memory' = [memory EXCEPT ![executor[t]] = o.memory]
          /\ frames' = [frames EXCEPT ![t] = Returned(t) \o Frames(o.calls)]
    /\ last' = Record(t, "return", "", TopFrame(t).k)
    /\ UNCHANGED <<mode, executor, status, parent, proc, script, output>>

\* The outermost evaluate_program call of a thread returns.  In the main
\* thread, main returns with it, which ends the process and every thread.
Finish(t) ==
    /\ Runnable(t)
    /\ TopFrame(t).toks = << >>
    /\ TopFrame(t).k.op = "top"
    /\ frames' = [frames EXCEPT ![t] = << >>]
    /\ status' = [status EXCEPT ![t] = "done"]
    /\ proc' = IF t = Main THEN "ended" ELSE proc
    /\ last' = Record(t, "finish", "", TopCont)
    /\ UNCHANGED <<stack, memory, mode, executor, parent, script, output>>

\* The mutation of Clone that starts the thread on Executor::new(mode).
CloneNew(stk, mem, md) == [stack |-> << >>, memory |-> EmptyMemory, mode |-> md]

\* self.clone(): Vec, HashMap and Mode are cloned element by element.
Clone(stk, mem, md) == [stack |-> stk, memory |-> mem, mode |-> md]

\* The mutation of SpawnedExecutor in which the thread is handed the
\* Executor of its spawner.
SharedExecutor(t, c) == executor[t]

\* The instance the thread in slot c, spawned by thread t, evaluates on: the
\* clone, moved into the closure, which is an instance of its own.
SpawnedExecutor(t, c) == c

\* The slot of the next thread to be spawned.
FreeSlot(c) == status[c] = "idle" /\ \A b \in Threads : status[b] = "idle" => c <= b

\* `thread`: pop the code, clone the Executor, spawn a thread evaluating the
\* code on the clone; the handle is dropped, and the caller goes on.
Thread(t) ==
    /\ AtCommand(t, {"thread"})
    /\ \E c \in Threads, p \in {pop_stack(stack[executor[t]])} :
         /\ FreeSlot(c)
         /\ \E copy \in {Clone(p.stack, memory[executor[t]], mode[executor[t]])} :
              /\ stack' = [stack EXCEPT ![c] = copy.stack, ![executor[t]] = p.stack]
              /\ memory' = [memory EXCEPT ![c] = copy.memory]
              /\ mode' = [mode EXCEPT ![c] = copy.mode]
         /\ executor' = [executor EXCEPT ![c] = SpawnedExecutor(t, c)]
         /\ frames' = [frames EXCEPT
                          ![t] = Consumed(t),
                          ![c] = <<Frame(Call(get_string(p.value), TopCont))>>]
         /\ status' = [status EXCEPT ![c] = "run"]
         /\ parent' = [parent EXCEPT ![c] = t]
    /\ last' = Record(t, "thread", "thread", NoCont)
    /\ UNCHANGED <<proc, script, output>>

\* `exit`: pop the status, std::process::exit: the whole process is gone.
Exit(t) ==
    /\ AtCommand(t, {"exit"})
    /\ stack' = [stack EXCEPT ![executor[t]] = pop_stack(@).stack]
    /\ frames' = [frames EXCEPT ![t] = Consumed(t)]
    /\ proc' = "exited"
    /\ last' = Record(t, "exit", "exit", NoCont)
    /\ UNCHANGED <<memory, mode, executor, status, parent, script, output>>

\* `insert` with an index beyond the length: the three values are popped,
\* Vec::insert panics and the thread unwinds out of every evaluate_program
\* call.  A panic of a spawned thread ends that thread; a panic of the main
\* thread ends the process.
Panic(t) ==
    /\ Panics(t)
    /\ stack' = [stack EXCEPT ![executor[t]] = Pop(@, 3).stack]
    /\ frames' = [frames EXCEPT ![t] = << >>]
    /\ status' = [status EXCEPT ![t] = "panicked"]
    /\ proc' = IF t = Main THEN "exited" ELSE proc
    /\ last' = Record(t, "panic", NextToken(t), NoCont)
    /\ UNCHANGED <<memory, mode, executor, parent, script, output>>

\* Vec::push cannot allocate: the allocation error aborts the process,
\* whichever thread it happens in.
Abort(t) ==
    /\ Exhausted(t)
    /\ proc' = "exited"
    /\ last' = Record(t, "abort", "", TopFrame(t).k)
    /\ UNCHANGED <<stack, memory, mode, executor, frames, status, parent, script, output>>

-----------------------------------------------------------------------------
(* The scripts the model runs *)

Modes == {"Script", "Debug"}

\* Scripts that spawn threads.
ThreadPrograms ==
    {"1 (x) var ((2) (x) var x) thread x",
     "1 (x) var ((x) free x) thread x 3 (x) var x",
     "(() (true) while) thread 1 2 add",
     "(0 exit) thread 1 2",
     "(1 2 add) thread 0 exit 9",
     "((7) thread 8) thread 9"}

\* Scripts whose commands find fewer values than they pop.
UnderflowPrograms ==
    {command : command \in BinaryCommands}
      \cup {"4 " \o command : command \in BinaryCommands}
      \cup {"pop", "swap", "copy", "not", "len", "4 (x) var pop pop x",
            "var", "7 swap"}

\* Scripts that read variables, some named like commands, comments, literals.
VariablePrograms ==
    {"5 (add) var add", "5 (#c#) var #c#", "5 (x) var x x (x) free x",
     "(a) (hello) var hello", "5 (1) var 1", "5 (true) var true",
     "5 ((s)) var (s)", "5 ([s]) var [s]", "5 (error:e) var error:e",
     "5 (thread) var thread", "5 (exit) var exit 6", "5 (pop) var 1 pop",
     "1 (x) var 2 (x) var x (x) free (y) free mem", "mem", "(x) free 5",
     "1 (a) var 2 (b) var mem 3 (c) var (a) free mem", "7 (5) (mem) var mem"}

\* Scripts of tokens that are no command, of comments and of error: tokens.
TokenPrograms ==
    {"hello", "3 foo:bar", "a)b", "Add", "#c#", "#c# 1 #d", "#",
     "error:x", "error:aerror:b", "error:", "xerror:y", "1e2 -.5 +3 1. inf",
     "(a\\nb) (a(b)c) ((x)\\))", "1 size-stack get-stack",
     "(hello world)", "{a b}", "#a b#", "{a\\b}", "{a\\ b} c", "a\\ b c",
     "[a\\]b] #x\\#y# z", "{(a\\b)} {[a\\b]} {#a\\b#}", "a\\nb\\tc\\rd\\\\e",
     "a\tb\nc\rd", "(a\\\\b) ({\\x}) ([\\x]\\y) (#\\n#\\n)", "a) b",
     "   ", " a  \\", "\\", "(a \\\\) eval", "(  ) eval", "[ ] [  1  ]", "\n\t a \r"}
      \cup {"(" \o a \o b \o c \o ")" :
                a \in {"a", "n", "\\", "(", ")", "[", "]", "#", "{", "}", " "},
                b \in {"a", "n", "\\", "(", ")", "[", "]", "#", "{", "}", " "},
                c \in {"a", "n", "\\", "(", ")", "[", "]", "#", "{", "}", " "}}

\* Scripts of list literals.
ListPrograms ==
    {"[1 2 [3 4]]", "[1 (x) var] x", "7 [pop 8 9]", "7 8 [pop pop]", "[]",
     "6 [(a) true]", "[[] [[5]]]", "[1 2 add 4]"}

\* Program texts with balanced parentheses, to evaluate inline and as the
\* text of a block.
Blocks ==
    {"4 5 add", "1 (x) var x", "(a b) (s) var s s", "[1 2] (x) (x x mul) map",
     "(1) (2) true if", "a\\nb", "(a\\(b) (c\\\\d)", "a\\ b", "a\\\\b", "7 (4 pop) eval",
     "", "[(p q) 2] 0 get"}

\* Scripts of eval, if and while.
ControlPrograms ==
    Blocks \cup {"(" \o c \o ") eval" : c \in Blocks} \cup
    {"(1) (2) true if", "(1) (2) () if", "(4 5 add) eval",
     "(1 (a) var) (2 (b) var) false if", "(7) 0 if", "true if",
     "0 (c) var 0 (b) var (b 1 add (b) var) (c 1 add (c) var c 3 less) while",
     "(9) (false) while 8", "(0) while",
     "0 (x) var (x 1 add (x) var) (x 2 less) while x"}

\* Scripts of for, map, filter and reduce.
LoopPrograms ==
    {"[1 2 3] (x) (x x mul) map", "[1 2] (x) (x (x) free) for",
     "[1 2] (x) (x 9 (x) var) map", "[] (x) (x) map", "5 (x) var [] (x) (7) for x",
     "(ab) (c) (c c concat) map", "map", "(x) for", "7 [4 5] (x) () map",
     "[1 2 3 4] (x) (x 2 mod 0 equal) filter", "[0 1] (x) (x) filter",
     "[3 1 2] (x) (x 3 less) filter", "[] (x) (true) filter", "8 (x) filter",
     "[1 2 3] (a) 0 (x) (a x add) reduce", "[] (a) 5 (x) (a x add) reduce",
     "[1 2] (a) 0 (a) (a 1 add) reduce", "[1] (a) 0 (x) ((a) free 7) reduce a",
     "reduce", "[4 5] (x) (x) for x"}

\* Scripts of get, set, del and insert.
IndexPrograms ==
    {"[1 2] 0 get", "9 [1 2] 1 get", "[1 2] 2 get", "[1 2] -1 get",
     "9 [1 2] 5 get 3", "[] 0 get", "get", "(ab) 1 get", "[1 2] 0.5 get",
     "[1 2] 1 7 set", "9 [1 2] 2 7 set", "[1 2] -1 7 set",
     "[1 2] 0 del", "9 [1 2] 2 del", "[1 2] -1 del", "5 (x) var [] 0 del x",
     "[1 2] 1 9 insert", "[1 2] 2 9 insert", "[1 2] 3 9 insert 4",
     "[] -1 9 insert", "([1] 5 9 insert 8) thread 1 2 add",
     "[(a) (b) (a)] (a) index", "9 [1 2 1] 2 index", "[1 2] 3 index",
     "[(1) 1] 1 index", "index", "[3 [1 2]] ([1 2]) index", "(abcb) (b) index"}

\* Scripts of range.
RangePrograms ==
    {"0 3 1 range", "9 1 2 0.5 range len", "5 2 1 range", "2 0 -1 range",
     "0 2 0 range 7", "0 2 -1 range", "range", "(0 1 0 range) thread 1 2 add",
     "0 2 (x) range"}

\* Scripts of sort.
SortPrograms ==
    {"[2 1] sort", "7 [(b) (a) (ab)] sort", "[10 9 true] sort", "[] sort",
     "sort", "[(b) (B) (a b) ()] sort", "(cab) sort", "[[2 1] [1 2]] sort"}

\* Scripts of print and println, of cast and type, and of rand.
ValuePrograms ==
    {"1 (hi) print 2", "[1 (a)] println", "print", "(a\\nb\\t\\\\r) println",
     "7 (x) var x print x", "(3 print) thread 4 println", "cast", "type",
     "(f) open-image print", "[1 2 3] rand", "9 [] rand", "rand", "(ab) rand",
     "[[1] (a)] rand 5", "[7] rand",
     "(f) open-image (image) cast", "9 (inf) (number) cast"}
      \cup {value \o " (" \o types \o ") cast" :
                value \in {"7", "0", "(ab)", "()", "true", "false", "[1 (a)]",
                           "[]", "[[(a b)] error:e]", "[1 [true]]", "error:e",
                           "error:true",
                           "(f) open-image"},
                types \in {"number", "string", "bool", "list", "error", "x"}}
      \cup {value \o " type" :
                value \in {"7", "(ab)", "true", "[]", "error:e", "(f) open-image"}}

\* The operands of the two-operand scripts.
Operands == {"7", "(2)", "true", "[1 0]"}

\* Scripts of a two-operand command on a stack of three values.
BinaryPrograms ==
    {"9 " \o a \o " " \o b \o " " \o command :
        a \in Operands, b \in Operands, command \in BinaryCommands}

Programs ==
    ThreadPrograms \cup UnderflowPrograms \cup VariablePrograms
      \cup TokenPrograms \cup ListPrograms \cup ControlPrograms
      \cup BinaryPrograms \cup LoopPrograms \cup IndexPrograms
      \cup RangePrograms \cup SortPrograms \cup ValuePrograms

\* main: Executor::new(mode), then evaluate_program(the script).
Init ==
    \E code \in Programs, md \in Modes :
        /\ script = code
        /\ stack = [i \in Threads |-> << >>]
        /\ memory = [i \in Threads |-> EmptyMemory]
        /\ mode = [i \in Threads |-> md]
        /\ executor = [t \in Threads |-> t]
        /\ output = << >>
        /\ frames = [t \in Threads |->
                        IF t = Main THEN <<Frame(Call(code, TopCont))>>
                        ELSE << >>]
        /\ status = [t \in Threads |-> IF t = Main THEN "run" ELSE "idle"]
        /\ parent = [t \in Threads |-> Main]
        /\ proc = "running"
        /\ last = [t |-> Main, act |-> "init", tok |-> "", k |-> NoCont,
                   depth |-> 0, stack |-> << >>, memory |-> EmptyMemory]

Next ==
    \E t \in Threads :
        \/ Eval(t)
        \/ Return(t)
        \/ Finish(t)
        \/ Thread(t)
        \/ Exit(t)
        \/ Panic(t)
        \/ Abort(t)
        \/ Choice(t)
        \/ Write(t)

Spec == Init /\ [][Next]_vars

\* The main thread is scheduled as long as it can take a step; no such
\* assumption is made for the threads it spawns.
MainStep ==
    \/ Eval(Main) \/ Return(Main) \/ Finish(Main) \/ Thread(Main) \/ Exit(Main)
    \/ Panic(Main) \/ Abort(Main) \/ Choice(Main)
    \/ Write(Main)

FairSpec == Spec /\ WF_vars(MainStep)

-----------------------------------------------------------------------------
(* Properties *)

\* The Executor instance of a thread, before and after a step.
StackOf(t) == stack[executor[t]]
MemoryOf(t) == memory[executor[t]]

\* The thread c has been spawned by the thread t.
SpawnedBy(c, t) == c # Main /\ c # t /\ status[c] # "idle" /\ parent[c] = t

\* The variable name holds this value in this memory.
Bound(mem, name, value) == name \in DOMAIN mem /\ mem[name] = value

\* C1: whatever a spawned thread does, and however its steps interleave with
\* those of the thread that spawned it, a step of the spawned thread leaves
\* the stack and the memory of its spawner unchanged: they change only by
\* the spawner's own tokens.
C1_ParentIsolated ==
    [][\A c \in Threads :
          (SpawnedBy(c, parent[c]) /\ last'.t = c) =>
              /\ stack'[executor[parent[c]]] = stack[executor[parent[c]]]
              /\ memory'[executor[parent[c]]] = memory[executor[parent[c]]]]_vars

\* C1 happens: the spawned thread has rebound x to (2), and the main thread,
\* reading x after that, has pushed the 1 it bound itself.
C1_Witness ==
    /\ script = "1 (x) var ((2) (x) var x) thread x"
    /\ last.t = Main /\ last.act = "eval" /\ last.tok = "x"
    /\ \E c \in Threads :
          /\ SpawnedBy(c, Main)
          /\ Bound(last.memory, "x", Number(Int2Num(1)))
          /\ Bound(MemoryOf(c), "x", String("2"))
    /\ StackOf(Main) = <<Number(Int2Num(1))>>

\* C2: the step that spawns a thread gives it the spawner's stack with the
\* code popped, the spawner's memory and the spawner's mode; and no later step
\* of the spawner changes the stack, the memory or the mode of the thread it
\* spawned.
C2_CopyAtSpawn ==
    [][\A c \in Threads \ {Main} :
          /\ (status[c] = "idle" /\ status'[c] = "run") =>
                /\ parent'[c] = last'.t
                /\ stack'[executor'[c]] =
                      SubSeq(StackOf(last'.t), 1, Len(StackOf(last'.t)) - 1)
                /\ stack'[executor'[c]] = stack'[executor'[last'.t]]
                /\ memory'[executor'[c]] = MemoryOf(last'.t)
                /\ mode'[executor'[c]] = mode[executor[last'.t]]
          /\ (SpawnedBy(c, parent[c]) /\ last'.t = parent[c]) =>
                /\ stack'[executor[c]] = stack[executor[c]]
                /\ memory'[executor[c]] = memory[executor[c]]
                /\ mode'[executor[c]] = mode[executor[c]]]_vars

\* C2 happens: the main thread has rebound x to 3 after the spawn, and the
\* spawned thread, still running, holds the 1 that x was bound to at the spawn.
C2_Witness ==
    /\ script = "1 (x) var ((x) free x) thread x 3 (x) var x"
    /\ Bound(MemoryOf(Main), "x", Number(Int2Num(3)))
    /\ \E c \in Threads :
          /\ SpawnedBy(c, Main)
          /\ status[c] = "run"
          /\ Bound(MemoryOf(c), "x", Number(Int2Num(1)))

\* C3: a thread that has spawned threads is never held back by them: while
\* the process lives and the thread has not finished, it is runnable whatever
\* the threads it spawned are doing; and the main thread, given its turns,
\* runs its script to the end (unless an `exit` ends the process first) even
\* when a thread it spawned loops for ever.
C3_ThreadNeverBlocks ==
    /\ [](\A t \in Threads :
            (/\ proc = "running"
             /\ status[t] = "run"
             /\ \E c \in Threads : SpawnedBy(c, t)) => Runnable(t))
    /\ <>(status[Main] = "done" \/ proc = "exited")

\* C3 happens: the main thread has run `1 2 add` to the end while the thread
\* it spawned is still inside its endless `while`.
C3_Witness ==
    /\ script = "(() (true) while) thread 1 2 add"
    /\ status[Main] = "done"
    /\ StackOf(Main) = <<Number(Int2Num(3))>>
    /\ \E c \in Threads :
          /\ SpawnedBy(c, Main)
          /\ status[c] = "run"
          /\ Len(frames[c]) >= 2
          /\ frames[c][2].k.op \in {"whilecond", "whilebody"}

\* The main thread has evaluated the last token of its script.
MainConsumedAll ==
    \/ status[Main] = "done"
    \/ status[Main] = "run" /\ Len(frames[Main]) = 1 /\ frames[Main][1].toks = << >>

\* C4, as stated: once the main thread has evaluated its last token, or
\* `exit` has been executed, no spawned thread evaluates a token or returns
\* from a call any more.
C4_NoStepAfterLastToken ==
    [][(MainConsumedAll \/ last.act = "exit") =>
          \A c \in Threads \ {Main} : frames'[c] = frames[c]]_vars

\* C4, amended: once the main thread's evaluate_program has returned, and
\* main with it, or `exit` has been executed, no thread evaluates a token,
\* returns from a call or changes a stack or a memory any more.
C4_NoStepAfterTermination ==
    [][(status[Main] = "done" \/ last.act = "exit") =>
          /\ frames' = frames
          /\ stack' = stack
          /\ memory' = memory]_vars

\* C4 happens: the main thread has finished its script, and the thread it
\* spawned is left with every token of its code unevaluated.
C4_Witness ==
    /\ script = "1 (x) var ((2) (x) var x) thread x"
    /\ status[Main] = "done"
    /\ \E c \in Threads :
          /\ SpawnedBy(c, Main)
          /\ status[c] = "run"
          /\ frames[c] = <<[toks |-> <<"(2)", "(x)", "var", "x">>, k |-> TopCont]>>

TwoOperandCommands ==
    {"add", "sub", "mul", "div", "mod", "pow", "less", "and", "or", "equal",
     "concat"}

\* The value a two-operand command is to push for the left operand a and the
\* right operand b.
TwoOperandResult(command, a, b) ==
    CASE command = "add" -> Number(NumAdd(get_number(a), get_number(b)))
      [] command = "sub" -> Number(NumSub(get_number(a), get_number(b)))
      [] command = "mul" -> Number(NumMul(get_number(a), get_number(b)))
      [] command = "div" -> Number(NumDiv(get_number(a), get_number(b)))
      [] command = "mod" -> Number(NumMod(get_number(a), get_number(b)))
      [] command = "pow" -> Number(NumPow(get_number(a), get_number(b)))
      [] command = "less" -> Bool(NumLess(get_number(a), get_number(b)))
      [] command = "and" -> Bool(get_bool(a) /\ get_bool(b))
      [] command = "or" -> Bool(get_bool(a) \/ get_bool(b))
      [] command = "equal" -> Bool(get_string(a) = get_string(b))
      [] command = "concat" -> String(get_string(a) \o get_string(b))

IsLiteral(token) ==
    \/ ParseNumber(token).ok
    \/ token \in {"true", "false"}
    \/ Wrapped(token, "(", ")")
    \/ Wrapped(token, "[", "]")
    \/ StartsWith(token, "error:")

\* The last step consumed a token: by evaluating it, by spawning, by exiting
\* or by panicking.
TokenStep == last.act \in {"eval", "thread", "exit", "panic"}

\* The last step made no evaluate_program call, spawned nothing and left the
\* process alive.
PlainStep == last.act = "eval" /\ Len(frames[last.t]) = last.depth

\* C6: a token that is a key of the memory and none of the literals pushes
\* the value bound to it and does nothing else, also when it is the name of a
\* command or has the shape of a comment: no operand is popped, nothing is
\* called or spawned, and the memory stays as it is.
C6_VariableShadowsCommand ==
    (TokenStep /\ last.tok \in DOMAIN last.memory /\ ~IsLiteral(last.tok)) =>
        /\ PlainStep
        /\ StackOf(last.t) = Append(last.stack, last.memory[last.tok])
        /\ MemoryOf(last.t) = last.memory

\* C6 happens: after `5 (add) var`, the token add has pushed the 5.
C6_Witness ==
    /\ script = "5 (add) var add"
    /\ last.act = "eval" /\ last.tok = "add"
    /\ Bound(last.memory, "add", Number(Int2Num(5)))
    /\ StackOf(Main) = <<Number(Int2Num(5))>>

\* C7: a token that is no literal, no key of the memory, no comment and no
\* command name pushes one String equal to itself; it pops nothing, calls
\* nothing and leaves the memory as it is.
C7_UnknownTokenIsText ==
    (/\ TokenStep
     /\ ~IsLiteral(last.tok)
     /\ last.tok \notin DOMAIN last.memory
     /\ ~Wrapped(last.tok, "#", "#")
     /\ last.tok \notin CommandNames) =>
        /\ PlainStep
        /\ StackOf(last.t) = Append(last.stack, String(last.tok))
        /\ MemoryOf(last.t) = last.memory

\* C7 happens: the token foo:bar has been pushed as a String above the 3.
C7_Witness ==
    /\ script = "3 foo:bar"
    /\ last.act = "eval" /\ last.tok = "foo:bar"
    /\ StackOf(Main) = <<Number(Int2Num(3)), String("foo:bar")>>

\* C8: a token that starts with error: pushes an Error whose tag is the
\* token without its first six characters, the leading error: .
C8_ErrorTagIsRemainder ==
    (TokenStep /\ StartsWith(last.tok, "error:")) =>
        /\ PlainStep
        /\ StackOf(last.t) =
              Append(last.stack, Error(SubSeq(last.tok, 7, Len(last.tok))))

\* The smaller of two numbers.
Min(a, b) == IF a < b THEN a ELSE b

\* C9: a token [s] calls evaluate_program on s, on the same stack and memory;
\* when that call returns, the values above the height the stack had at the
\* token are replaced by one List of them, first pushed first, and the memory
\* is as the call left it.  So `[1 2 [3 4]]` leaves List[1, 2, List[3, 4]],
\* and the x bound inside `[1 (x) var]` is read after it.
C9_ListLiteral ==
    /\ (TokenStep /\ Wrapped(last.tok, "[", "]") /\ ~ParseNumber(last.tok).ok) =>
          /\ last.act = "eval"
          /\ StackOf(last.t) = last.stack
          /\ MemoryOf(last.t) = last.memory
          /\ Len(frames[last.t]) = last.depth + 1
          /\ frames[last.t][last.depth + 1] =
                [toks |-> analyze_syntax(SubSeq(last.tok, 2, Len(last.tok) - 1)),
                 k |-> [NoCont EXCEPT !.op = "list", !.old_len = Len(last.stack)]]
    /\ (last.act = "return" /\ last.k.op = "list") =>
          /\ StackOf(last.t) =
                Append(SubSeq(last.stack, 1, Min(last.k.old_len, Len(last.stack))),
                       List(SubSeq(last.stack, last.k.old_len + 1, Len(last.stack))))
          /\ MemoryOf(last.t) = last.memory
          /\ Len(frames[last.t]) = last.depth - 1
    /\ (script = "[1 2 [3 4]]" /\ status[Main] = "done") =>
          StackOf(Main) =
              <<List(<<Number(Int2Num(1)), Number(Int2Num(2)),
                       List(<<Number(Int2Num(3)), Number(Int2Num(4))>>)>>)>>
    /\ (script = "[1 (x) var] x" /\ status[Main] = "done") =>
          StackOf(Main) = <<List(<< >>), Number(Int2Num(1))>>

\* C9 happens: the outer literal of `[1 2 [3 4]]` has returned.
C9_Witness ==
    /\ script = "[1 2 [3 4]]"
    /\ last.act = "return" /\ last.k.op = "list" /\ last.k.old_len = 0
    /\ last.stack = <<Number(Int2Num(1)), Number(Int2Num(2)),
                      List(<<Number(Int2Num(3)), Number(Int2Num(4))>>)>>
    /\ StackOf(Main) = <<List(last.stack)>>

\* C10: add, sub, mul, div, mod, pow, less, and, or, equal and concat, on a
\* stack that ends in a, b, pop both and push one value, computed with a on
\* the left and b on the right; the values below a stay as they are.
C10_TwoOperands ==
    (/\ TokenStep
     /\ last.tok \in TwoOperandCommands
     /\ last.tok \notin DOMAIN last.memory
     /\ Len(last.stack) >= 2) =>
        /\ PlainStep
        /\ StackOf(last.t) =
              Append(SubSeq(last.stack, 1, Len(last.stack) - 2),
                     TwoOperandResult(last.tok, last.stack[Len(last.stack) - 1],
                                      last.stack[Len(last.stack)]))
        /\ MemoryOf(last.t) = last.memory

\* C10 happens: `sub` on 9, 7, (2) has left 9 and 7 - 2.
C10_Witness ==
    /\ script = "9 7 (2) sub"
    /\ last.act = "eval" /\ last.tok = "sub"
    /\ last.stack = <<Number(Int2Num(9)), Number(Int2Num(7)), String("2")>>
    /\ StackOf(Main) = <<Number(Int2Num(9)), Number(Int2Num(5))>>

\* The j-th value a command pops from the stack stk, counted from the top:
\* the empty String where the stack has none.
Operand(stk, j) == IF j <= Len(stk) THEN stk[Len(stk) + 1 - j] ELSE String("")

\* The stack stk without its j topmost values.
Below(stk, j) == SubSeq(stk, 1, Len(stk) - j)

\* The last step executed this command: the token reached execute_command.
CommandStep(command) ==
    TokenStep /\ last.tok = command /\ last.tok \notin DOMAIN last.memory

\* The last step made exactly one evaluate_program call, on this code.
CalledOnce(code) ==
    /\ Len(frames[last.t]) = last.depth + 1
    /\ frames[last.t][last.depth + 1].toks = analyze_syntax(code)

\* C11: `if` pops the condition, the code of else and the code of if, in
\* that order, and makes exactly one evaluate_program call, on the stack and
\* memory the pops leave: on the code of if when the condition is true as a
\* Bool, on the code of else otherwise; the other code is not evaluated.
C11_IfOneBranch ==
    /\ CommandStep("if") =>
          /\ last.act = "eval"
          /\ StackOf(last.t) = Below(last.stack, 3)
          /\ MemoryOf(last.t) = last.memory
          /\ CalledOnce(IF get_bool(Operand(last.stack, 1))
                        THEN get_string(Operand(last.stack, 3))
                        ELSE get_string(Operand(last.stack, 2)))
          /\ frames[last.t][last.depth + 1].k = NoCont
    /\ (script = "(1) (2) true if" /\ status[Main] = "done") =>
          StackOf(Main) = <<Number(Int2Num(1))>>
    /\ (script = "(1 (a) var) (2 (b) var) false if" /\ status[Main] = "done") =>
          /\ StackOf(Main) = << >>
          /\ MemoryOf(Main) = Insert(EmptyMemory, "b", Number(Int2Num(2)))

\* C11 happens: `if` on (1), (2), true has called the code of if, 1.
C11_Witness ==
    /\ script = "(1) (2) true if"
    /\ last.act = "eval" /\ last.tok = "if"
    /\ last.stack = <<String("1"), String("2"), Bool(TRUE)>>
    /\ StackOf(Main) = << >>
    /\ frames[Main][2] = [toks |-> <<"1">>, k |-> NoCont]

\* The last step returned from a call made by this part of a command.
ReturnStep(op) == last.act = "return" /\ last.k.op = op

\* The last return made exactly one evaluate_program call, on this code.
CalledAgain(code) ==
    /\ Len(frames[last.t]) = last.depth
    /\ frames[last.t][last.depth].toks = analyze_syntax(code)

\* C12: `while` pops the code of the condition, then the code of the body,
\* and evaluates the condition.  Each time the condition has been evaluated
\* one value is popped: when it is true as a Bool the body is evaluated once
\* and then the condition again, when it is not the loop is over and the
\* body is not evaluated.  So the condition is evaluated once more than the
\* body: a script that counts both in c and b ends with c = 3 and b = 2.
C12_WhileAlternates ==
    /\ CommandStep("while") =>
          /\ last.act = "eval"
          /\ StackOf(last.t) = Below(last.stack, 2)
          /\ MemoryOf(last.t) = last.memory
          /\ CalledOnce(get_string(Operand(last.stack, 1)))
          /\ frames[last.t][last.depth + 1].k =
                [NoCont EXCEPT !.op = "whilecond",
                               !.cond = get_string(Operand(last.stack, 1)),
                               !.code = get_string(Operand(last.stack, 2))]
    /\ ReturnStep("whilecond") =>
          /\ StackOf(last.t) = Below(last.stack, 1)
          /\ MemoryOf(last.t) = last.memory
          /\ IF get_bool(Operand(last.stack, 1))
             THEN /\ CalledAgain(last.k.code)
                  /\ frames[last.t][last.depth].k = [last.k EXCEPT !.op = "whilebody"]
             ELSE Len(frames[last.t]) = last.depth - 1
    /\ ReturnStep("whilebody") =>
          /\ StackOf(last.t) = last.stack
          /\ MemoryOf(last.t) = last.memory
          /\ CalledAgain(last.k.cond)
          /\ frames[last.t][last.depth].k = [last.k EXCEPT !.op = "whilecond"]
    /\ (/\ script = "0 (c) var 0 (b) var (b 1 add (b) var) (c 1 add (c) var c 3 less) while"
        /\ status[Main] = "done") =>
          /\ StackOf(Main) = << >>
          /\ Bound(MemoryOf(Main), "c", Number(Int2Num(3)))
          /\ Bound(MemoryOf(Main), "b", Number(Int2Num(2)))
    /\ (script = "(9) (false) while 8" /\ status[Main] = "done") =>
          StackOf(Main) = <<Number(Int2Num(8))>>

\* C12 happens: the third evaluation of the condition has left false, the
\* loop is over, and the body has been evaluated twice.
C12_Witness ==
    /\ script = "0 (c) var 0 (b) var (b 1 add (b) var) (c 1 add (c) var c 3 less) while"
    /\ ReturnStep("whilecond")
    /\ last.stack = <<Bool(FALSE)>>
    /\ StackOf(Main) = << >>
    /\ Len(frames[Main]) = 1
    /\ Bound(MemoryOf(Main), "c", Number(Int2Num(3)))
    /\ Bound(MemoryOf(Main), "b", Number(Int2Num(2)))

\* The locals of a loop over the List l that evaluates its code for the
\* i-th time, with the values collected so far.
LoopLocals(op, code, name, l, i, collected) ==
    [NoCont EXCEPT !.op = op, !.code = code, !.vars = name, !.list = l,
                   !.i = i, !.result_list = collected]

\* The step of `for`, `map` or `filter` that pops the operands: over an
\* empty List nothing is evaluated; otherwise the variable is bound to the
\* first element and the code is evaluated for the first time.
LoopStarts(op, code, name, l) ==
    /\ last.act = "eval"
    /\ IF l = << >>
       THEN /\ Len(frames[last.t]) = last.depth
            /\ MemoryOf(last.t) = last.memory
            /\ StackOf(last.t) =
                  IF op = "for" THEN Below(last.stack, 3)
                  ELSE Append(Below(last.stack, 3), List(<< >>))
       ELSE /\ StackOf(last.t) = Below(last.stack, 3)
            /\ MemoryOf(last.t) = Insert(last.memory, name, l[1])
            /\ CalledOnce(code)
            /\ frames[last.t][last.depth + 1].k =
                  LoopLocals(op, code, name, l, 1, << >>)

\* The step after an evaluation of the code of a loop: with the values
\* collected now, and the stack the loop body leaves, either the variable is
\* bound to the next element and the code is evaluated again, or the loop is
\* over and has evaluated the code once for each element.
LoopGoesOn(k, collected, stk) ==
    IF k.i < Len(k.list)
    THEN /\ StackOf(last.t) = stk
         /\ MemoryOf(last.t) = Insert(last.memory, k.vars, k.list[k.i + 1])
         /\ CalledAgain(k.code)
         /\ frames[last.t][last.depth].k =
               LoopLocals(k.op, k.code, k.vars, k.list, k.i + 1, collected)
    ELSE /\ k.i = Len(k.list)
         /\ Len(frames[last.t]) = last.depth - 1
         /\ MemoryOf(last.t) = last.memory
         /\ StackOf(last.t) =
               IF k.op = "for" THEN stk ELSE Append(stk, List(collected))

\* C13: `for` and `map` pop the code, the name of the variable and the List
\* once, and evaluate the code once for each element of that List, in list
\* order, each time with the variable bound to the element just before the
\* evaluation, whatever the code did to the stack or to the memory before;
\* `map` pops one value after each evaluation and, after the last, pushes
\* the List of the values popped, in order.
C13_ForMapIterate ==
    /\ \A op \in {"for", "map"} :
          /\ CommandStep(op) =>
                LoopStarts(op, get_string(Operand(last.stack, 1)),
                           get_string(Operand(last.stack, 2)),
                           get_list(Operand(last.stack, 3)))
          /\ ReturnStep(op) =>
                IF op = "for"
                THEN LoopGoesOn(last.k, << >>, last.stack)
                ELSE /\ Len(last.k.result_list) = last.k.i - 1
                     /\ LoopGoesOn(last.k,
                                   Append(last.k.result_list, Operand(last.stack, 1)),
                                   Below(last.stack, 1))
    /\ (script = "[1 2 3] (x) (x x mul) map" /\ status[Main] = "done") =>
          StackOf(Main) =
              <<List(<<Number(Int2Num(1)), Number(Int2Num(4)), Number(Int2Num(9))>>)>>
    /\ (script = "[1 2] (x) (x (x) free) for" /\ status[Main] = "done") =>
          /\ StackOf(Main) = <<Number(Int2Num(1)), Number(Int2Num(2))>>
          /\ MemoryOf(Main) = EmptyMemory
    /\ (script = "[1 2] (x) (x 9 (x) var) map" /\ status[Main] = "done") =>
          StackOf(Main) = <<List(<<Number(Int2Num(1)), Number(Int2Num(2))>>)>>

\* C13 happens: `map` with the code x 9 (x) var, which rebinds x, has
\* evaluated it for the second element 2 and pushed the List of 1 and 2.
C13_Witness ==
    /\ script = "[1 2] (x) (x 9 (x) var) map"
    /\ ReturnStep("map")
    /\ last.k.i = 2
    /\ last.stack = <<Number(Int2Num(2))>>
    /\ Bound(last.memory, "x", Number(Int2Num(9)))
    /\ StackOf(Main) = <<List(<<Number(Int2Num(1)), Number(Int2Num(2))>>)>>

\* The elements of the sequence s at the indices in S, in the order of s.
Restrict(s, S) ==
    [j \in 1..Cardinality(S) |->
        s[CHOOSE i \in S : Cardinality({m \in S : m < i}) = j - 1]]

\* The sequence a is a subsequence of the sequence b.
IsSubsequence(a, b) == \E S \in SUBSET (1..Len(b)) : a = Restrict(b, S)

\* C14: `filter` pops the code, the name of the variable and the List, and
\* evaluates the code for each element as `for` does; after each evaluation
\* it pops one value and keeps the element itself iff that value is true as
\* a Bool; after the last it pushes one List, the elements kept: a
\* subsequence of the popped List, in its order.
C14_FilterSubsequence ==
    /\ CommandStep("filter") =>
          LoopStarts("filter", get_string(Operand(last.stack, 1)),
                     get_string(Operand(last.stack, 2)),
                     get_list(Operand(last.stack, 3)))
    /\ ReturnStep("filter") =>
          /\ LoopGoesOn(last.k,
                        IF get_bool(Operand(last.stack, 1))
                        THEN Append(last.k.result_list, last.k.list[last.k.i])
                        ELSE last.k.result_list,
                        Below(last.stack, 1))
          /\ IsSubsequence(last.k.result_list, SubSeq(last.k.list, 1, last.k.i - 1))
          /\ last.k.i = Len(last.k.list) =>
                /\ StackOf(last.t)[Len(StackOf(last.t))].t = "List"
                /\ IsSubsequence(StackOf(last.t)[Len(StackOf(last.t))].l, last.k.list)
    /\ (script = "[1 2 3 4] (x) (x 2 mod 0 equal) filter" /\ status[Main] = "done") =>
          StackOf(Main) = <<List(<<Number(Int2Num(2)), Number(Int2Num(4))>>)>>
    /\ (script = "[3 1 2] (x) (x 3 less) filter" /\ status[Main] = "done") =>
          StackOf(Main) = <<List(<<Number(Int2Num(1)), Number(Int2Num(2))>>)>>
    /\ (script = "[0 1] (x) (x) filter" /\ status[Main] = "done") =>
          StackOf(Main) = <<List(<<Number(Int2Num(1))>>)>>

\* C14 happens: `filter` with the code x 2 mod 0 equal has popped true for
\* the last element 4 and pushed the List of 2 and 4.
C14_Witness ==
    /\ script = "[1 2 3 4] (x) (x 2 mod 0 equal) filter"
    /\ ReturnStep("filter")
    /\ last.k.i = 4
    /\ last.k.result_list = <<Number(Int2Num(2))>>
    /\ last.stack = <<Bool(TRUE)>>
    /\ StackOf(Main) = <<List(<<Number(Int2Num(2)), Number(Int2Num(4))>>)>>

\* The commands that pop and push values and do nothing else.
StackOnlyCommands ==
    TwoOperandCommands \cup {"not", "len", "pop", "copy", "swap", "size-stack"}

\* The code neither rebinds nor frees a variable: each of its tokens is a
\* number, true, false, a ( ... ) literal, the loop variable (which is no
\* list literal) or a command that only pops and pushes.
KeepsBindings(code, name) ==
    \A j \in 1..Len(analyze_syntax(code)) :
        \E token \in {analyze_syntax(code)[j]} :
            \/ ParseNumber(token).ok
            \/ token \in {"true", "false"}
            \/ Wrapped(token, "(", ")")
            \/ token = name /\ ~Wrapped(token, "[", "]")
            \/ token \in StackOnlyCommands

LoopCommands == {"for", "map", "filter"}

\* C15: when `for`, `map` or `filter` has evaluated its code for the last
\* element of a List, and the code neither rebinds nor frees a variable, the
\* memory binds the loop variable to that last element, and stays so when
\* the loop is over; over an empty List the memory is left as it was, and
\* the variable is neither created nor changed.
C15_LoopVariableStays ==
    /\ \A op \in LoopCommands :
          /\ (/\ ReturnStep(op)
              /\ last.k.i = Len(last.k.list)
              /\ KeepsBindings(last.k.code, last.k.vars)) =>
                /\ Len(frames[last.t]) = last.depth - 1
                /\ Bound(MemoryOf(last.t), last.k.vars, last.k.list[Len(last.k.list)])
                /\ MemoryOf(last.t) = last.memory
          /\ (CommandStep(op) /\ Operand(last.stack, 3) = List(<< >>)) =>
                /\ PlainStep
                /\ MemoryOf(last.t) = last.memory
    /\ (script = "[4 5] (x) (x) for x" /\ status[Main] = "done") =>
          StackOf(Main) = <<Number(Int2Num(4)), Number(Int2Num(5)), Number(Int2Num(5))>>
    /\ (script = "5 (x) var [] (x) (7) for x" /\ status[Main] = "done") =>
          /\ StackOf(Main) = <<Number(Int2Num(5))>>
          /\ MemoryOf(Main) = Insert(EmptyMemory, "x", Number(Int2Num(5)))

\* C15 happens: after `[4 5] (x) (x) for`, the token x has pushed the last
\* element, 5.
C15_Witness ==
    /\ script = "[4 5] (x) (x) for x"
    /\ last.act = "eval" /\ last.tok = "x"
    /\ Len(frames[Main]) = 1
    /\ Bound(last.memory, "x", Number(Int2Num(5)))
    /\ StackOf(Main) = <<Number(Int2Num(4)), Number(Int2Num(5)), Number(Int2Num(5))>>

\* The step of `reduce` that ends it: it leaves the stack stk with the value
\* of the accumulator pushed, and the memory mem with the accumulator bound
\* to the empty String.
ReduceIsOver(stk, mem, acc, value) ==
    /\ Len(frames[last.t]) = IF last.act = "eval" THEN last.depth ELSE last.depth - 1
    /\ StackOf(last.t) = Append(stk, value)
    /\ MemoryOf(last.t) = Insert(mem, acc, String(""))
    /\ Bound(MemoryOf(last.t), acc, String(""))

\* The step of `reduce` that pops its operands, in the order code, iteration
\* variable, initial value, accumulator, List.
ReduceStarts(code, now, init, acc, l) ==
    /\ last.act = "eval"
    /\ IF l = << >>
       THEN ReduceIsOver(Below(last.stack, 5), Insert(last.memory, acc, init),
                         acc, init)
       ELSE /\ StackOf(last.t) = Below(last.stack, 5)
            /\ MemoryOf(last.t) = Insert(Insert(last.memory, acc, init), now, l[1])
            /\ CalledOnce(code)
            /\ frames[last.t][last.depth + 1].k =
                  [LoopLocals("reduce", code, now, l, 1, << >>) EXCEPT !.acc = acc]

\* The step of `reduce` after an evaluation of the code: the value on top of
\* the stack is popped and becomes the value of the accumulator.
ReduceGoesOn(k, result) ==
    IF k.i < Len(k.list)
    THEN /\ StackOf(last.t) = Below(last.stack, 1)
         /\ MemoryOf(last.t) =
               Insert(Insert(last.memory, k.acc, result), k.vars, k.list[k.i + 1])
         /\ CalledAgain(k.code)
         /\ frames[last.t][last.depth].k = [k EXCEPT !.i = k.i + 1]
    ELSE /\ k.i = Len(k.list)
         /\ ReduceIsOver(Below(last.stack, 1), last.memory, k.acc, result)

\* C16: `reduce` pops the code, the name of the iteration variable, the
\* initial value, the name of the accumulator and the List; it binds the
\* accumulator to the initial value; for each element, in list order, it
\* binds the iteration variable to the element, evaluates the code, pops one
\* value and binds the accumulator to it; in the end it pushes one value,
\* the last value of the accumulator (the initial value for an empty List),
\* and leaves the accumulator bound to the empty String.
C16_Reduce ==
    /\ CommandStep("reduce") =>
          ReduceStarts(get_string(Operand(last.stack, 1)),
                       get_string(Operand(last.stack, 2)),
                       Operand(last.stack, 3),
                       get_string(Operand(last.stack, 4)),
                       get_list(Operand(last.stack, 5)))
    /\ ReturnStep("reduce") => ReduceGoesOn(last.k, Operand(last.stack, 1))
    /\ (script = "[1 2 3] (a) 0 (x) (a x add) reduce" /\ status[Main] = "done") =>
          /\ StackOf(Main) = <<Number(Int2Num(6))>>
          /\ Bound(MemoryOf(Main), "a", String(""))
          /\ Bound(MemoryOf(Main), "x", Number(Int2Num(3)))
    /\ (script = "[] (a) 5 (x) (a x add) reduce" /\ status[Main] = "done") =>
          /\ StackOf(Main) = <<Number(Int2Num(5))>>
          /\ MemoryOf(Main) = Insert(EmptyMemory, "a", String(""))
    /\ (script = "[1] (a) 0 (x) ((a) free 7) reduce a" /\ status[Main] = "done") =>
          StackOf(Main) = <<Number(Int2Num(7)), String("")>>

\* C16 happens: `reduce` has added up 1, 2 and 3 from 0, pushed the 6 and
\* bound the accumulator a to the empty String.
C16_Witness ==
    /\ script = "[1 2 3] (a) 0 (x) (a x add) reduce"
    /\ ReturnStep("reduce")
    /\ last.k.i = 3
    /\ last.stack = <<Number(Int2Num(6))>>
    /\ Bound(last.memory, "a", Number(Int2Num(3)))
    /\ StackOf(Main) = <<Number(Int2Num(6))>>
    /\ Bound(MemoryOf(Main), "a", String(""))

\* The number i is no index of a list of this length: i < 0 or i >= len.
OutsideList(i, len) ==
    \/ NumLess(i, Int2Num(0))
    \/ ~IsNaN(i) /\ ~NumLess(i, Int2Num(len))

\* The number of values `get`, `set`, `del` and `insert` pop.
IndexedOperands(command) == IF command \in {"set", "insert"} THEN 3 ELSE 2

\* The last step executed this command on a List and a Number for an index.
IndexedStep(command) ==
    /\ CommandStep(command)
    /\ Operand(last.stack, IndexedOperands(command)).t = "List"
    /\ Operand(last.stack, IndexedOperands(command) - 1).t = "Number"

\* The List and the index of the last step.
ListOperand == Operand(last.stack, IndexedOperands(last.tok)).l
IndexOperand == NumOf(Operand(last.stack, IndexedOperands(last.tok) - 1))

\* C17: `get`, `set` and `del` on a List and an index outside 0..len-1,
\* negative or not below the length, pop their operands and push the one
\* value Error(index-out-range), with the memory and the values below the
\* operands left as they are.
C17_IndexOutOfRange ==
    \A command \in {"get", "set", "del"} :
        (IndexedStep(command) /\ OutsideList(IndexOperand, Len(ListOperand))) =>
            /\ PlainStep
            /\ StackOf(last.t) =
                  Append(Below(last.stack, IndexedOperands(command)),
                         Error("index-out-range"))
            /\ MemoryOf(last.t) = last.memory

\* C18: `insert` on a List and an index greater than its length pushes an
\* Error, and the thread goes on with the tokens that follow.
C18_InsertBeyondEnd ==
    (/\ IndexedStep("insert")
     /\ NumLess(Int2Num(Len(ListOperand)), IndexOperand)) =>
        /\ PlainStep
        /\ Len(StackOf(last.t)) = Len(Below(last.stack, 3)) + 1
        /\ StackOf(last.t)[Len(StackOf(last.t))].t = "Error"
        /\ MemoryOf(last.t) = last.memory
        /\ status[last.t] = "run"
        /\ proc = "running"

\* The elements of a List of Numbers go up from one to the next by the step.
InSteps(l, step) ==
    \A j \in 2..Len(l) : l[j] = Number(NumAdd(step, NumOf(l[j - 1])))

\* C19: `range` pops the step, the max and the min, and always comes to an
\* end, pushing one List.  With a positive step the List holds min,
\* min + step, ... as long as they are below max; with a step that is zero
\* or negative the List is empty: the loop pushes nothing, and the memory
\* never runs out.
C19_RangeTerminates ==
    /\ CommandStep("range") =>
          /\ last.act = "eval"
          /\ StackOf(last.t) = Below(last.stack, 3)
          /\ MemoryOf(last.t) = last.memory
    /\ last.act # "abort"
    /\ ReturnStep("range") =>
          /\ MemoryOf(last.t) = last.memory
          /\ IF NumLess(Int2Num(0), last.k.step) /\ NumLess(last.k.at, last.k.max)
             THEN /\ StackOf(last.t) = last.stack
                  /\ Len(frames[last.t]) = last.depth
                  /\ frames[last.t][last.depth].k.result_list =
                        Append(last.k.result_list, Number(last.k.at))
                  /\ InSteps(frames[last.t][last.depth].k.result_list, last.k.step)
             ELSE /\ Len(frames[last.t]) = last.depth - 1
                  /\ StackOf(last.t) = Append(last.stack, List(last.k.result_list))
                  /\ ~NumLess(Int2Num(0), last.k.step) => last.k.result_list = << >>

\* The sequence r holds the elements of the sequence l, each as often as l.
IsPermutation(r, l) ==
    /\ Len(r) = Len(l)
    /\ \E p \in [1..Len(l) -> 1..Len(l)] :
          /\ \A i, j \in 1..Len(l) : p[i] = p[j] => i = j
          /\ \A i \in 1..Len(l) : r[i] = l[p[i]]

\* C20: `sort` pops a List and pushes one List: a permutation of the
\* elements popped, each the Value it was, in nondecreasing lexicographic
\* order of their strings.
C20_SortPermutation ==
    (CommandStep("sort") /\ Operand(last.stack, 1).t = "List") =>
        /\ PlainStep
        /\ MemoryOf(last.t) = last.memory
        /\ Len(StackOf(last.t)) = Len(last.stack)
        /\ Below(StackOf(last.t), 1) = Below(last.stack, 1)
        /\ \E sorted \in {Operand(StackOf(last.t), 1)} :
              /\ sorted.t = "List"
              /\ IsPermutation(sorted.l, Operand(last.stack, 1).l)
              /\ \A j \in 2..Len(sorted.l) :
                    StrLeq(get_string(sorted.l[j - 1]), get_string(sorted.l[j]))

\* C21: `index` pops the target and the List and pushes one value: the
\* Number of the first position, counted from 0, whose element has the
\* string of the target, or Error(item-not-found) when there is none.
C21_IndexFirstMatch ==
    CommandStep("index") =>
        /\ PlainStep
        /\ MemoryOf(last.t) = last.memory
        /\ Len(StackOf(last.t)) = Len(Below(last.stack, 2)) + 1
        /\ Below(StackOf(last.t), 1) = Below(last.stack, 2)
        /\ \E l \in {get_list(Operand(last.stack, 2))},
              target \in {get_string(Operand(last.stack, 1))},
              pushed \in {Operand(StackOf(last.t), 1)} :
              IF \A j \in 1..Len(l) : get_string(l[j]) # target
              THEN pushed = Error("item-not-found")
              ELSE /\ pushed.t = "Number"
                   /\ NumOf(pushed).d = 1
                   /\ NumOf(pushed).n \in 0..(Len(l) - 1)
                   /\ get_string(l[NumOf(pushed).n + 1]) = target
                   /\ \A j \in 1..NumOf(pushed).n : get_string(l[j]) # target

\* C21 happens: `index` has found the first (a) of (a) (b) (a) at 0.
C21_Witness ==
    /\ script = "[(a) (b) (a)] (a) index"
    /\ last.act = "eval" /\ last.tok = "index"
    /\ Len(last.stack) = 2
    /\ StackOf(Main) = <<Number(Int2Num(0))>>

\* The memory mem with name bound to value, and every other name as in old.
Rebound(mem, old, name, value) ==
    /\ DOMAIN mem = DOMAIN old \cup {name}
    /\ mem[name] = value
    /\ \A other \in DOMAIN old \ {name} : mem[other] = old[other]

\* The memory mem without name, and every other name as in old.
Unbound(mem, old, name) ==
    /\ DOMAIN mem = DOMAIN old \ {name}
    /\ \A other \in DOMAIN mem : mem[other] = old[other]

\* C22: `var` pops the name and the value and binds the name to the value,
\* replacing what the name was bound to; `free` pops the name and unbinds
\* it, and with a name that is not bound leaves the memory as it is and
\* pushes nothing; so a name is bound to the value of its last `var` that no
\* `free` followed.  `mem` leaves the memory as it is and pushes one List:
\* the names that are bound, each once, as Strings.
C22_VarFreeMem ==
    /\ CommandStep("var") =>
          /\ PlainStep
          /\ StackOf(last.t) = Below(last.stack, 2)
          /\ Rebound(MemoryOf(last.t), last.memory,
                     get_string(Operand(last.stack, 1)), Operand(last.stack, 2))
    /\ CommandStep("free") =>
          /\ PlainStep
          /\ StackOf(last.t) = Below(last.stack, 1)
          /\ Unbound(MemoryOf(last.t), last.memory, get_string(Operand(last.stack, 1)))
          /\ get_string(Operand(last.stack, 1)) \notin DOMAIN last.memory =>
                MemoryOf(last.t) = last.memory
    /\ CommandStep("mem") =>
          /\ PlainStep
          /\ MemoryOf(last.t) = last.memory
          /\ Below(StackOf(last.t), 1) = last.stack
          /\ \E keys \in {Operand(StackOf(last.t), 1)} :
                /\ keys.t = "List"
                /\ Len(keys.l) = Cardinality(DOMAIN last.memory)
                /\ {keys.l[j] : j \in 1..Len(keys.l)} =
                      {String(name) : name \in DOMAIN last.memory}
    /\ (/\ script = "1 (x) var 2 (x) var x (x) free (y) free mem"
        /\ status[Main] = "done") =>
          /\ StackOf(Main) = <<Number(Int2Num(2)), List(<< >>)>>
          /\ MemoryOf(Main) = EmptyMemory

\* C22 happens: with a and b bound, `mem` has pushed the List of b and a,
\* one of the two orders in which the names can come.
C22_Witness ==
    /\ script = "1 (a) var 2 (b) var mem 3 (c) var (a) free mem"
    /\ last.act = "eval" /\ last.tok = "mem"
    /\ DOMAIN last.memory = {"a", "b"}
    /\ StackOf(Main) = <<List(<<String("b"), String("a")>>)>>
    /\ MemoryOf(Main) = last.memory

\* The text that print and println write for the value they pop: its string
\* with the two characters of a written line break, tab or carriage return
\* replaced by the character they stand for.
RECURSIVE Written(_)
Written(s) ==
    IF Len(s) = 0 THEN ""
    ELSE IF Len(s) >= 2 /\ SubSeq(s, 1, 2) \in {"\\n", "\\t", "\\r"}
    THEN (CASE SubSeq(s, 2, 2) = "n" -> "\n"
            [] SubSeq(s, 2, 2) = "t" -> "\t"
            [] SubSeq(s, 2, 2) = "r" -> "\r") \o Written(SubSeq(s, 3, Len(s)))
    ELSE SubSeq(s, 1, 1) \o Written(SubSeq(s, 2, Len(s)))

\* C23: the mode of an Executor never changes and is the mode main started
\* with; the only steps that read it are those of `print` and `println`, and
\* in Debug mode as in Script mode they pop one value, leave the values
\* below and the memory as they are and go on with the next token: the mode
\* decides the text written only, so the stack and the memory after every
\* token are the same in both modes.
C23_ModeOnlyPrints ==
    /\ \A i \in Threads : mode[i] = mode[Main]
    /\ (CommandStep("print") \/ CommandStep("println")) =>
          /\ PlainStep
          /\ StackOf(last.t) = Below(last.stack, 1)
          /\ MemoryOf(last.t) = last.memory
          /\ \A md \in Modes :
                Output(last.tok, md, last.stack).stack = StackOf(last.t)
          /\ Len(output) > 0
          /\ \E a \in {Written(get_string(Operand(last.stack, 1)))} :
                output[Len(output)] =
                    IF mode[executor[last.t]] = "Debug"
                    THEN "[Output]: " \o a \o "\n"
                    ELSE IF last.tok = "print" THEN a ELSE a \o "\n"
    /\ (script = "7 (x) var x print x" /\ status[Main] = "done") =>
          /\ StackOf(Main) = <<Number(Int2Num(7))>>
          /\ DOMAIN MemoryOf(Main) = {"x"}

\* C23 happens: in Debug mode `print` has popped the String hi and written
\* it after the mark of the Debug mode, and the 1 below is still there.
C23_Witness ==
    /\ script = "1 (hi) print 2"
    /\ mode[Main] = "Debug"
    /\ last.act = "eval" /\ last.tok = "print"
    /\ StackOf(Main) = <<Number(Int2Num(1))>>
    /\ output = <<"[Output]: hi\n">>

\* The string the table gives a value: a List is its elements' strings,
\* joined by single spaces, in square brackets.
RECURSIVE ToText(_)
ToText(v) ==
    IF v.t = "List"
    THEN "[" \o Join([i \in 1..Len(v.l) |-> ToText(v.l[i])], " ") \o "]"
    ELSE get_string(v)

\* A step of `cast` to the type named.
CastStep(types) ==
    /\ CommandStep("cast")
    /\ Len(last.stack) >= 2
    /\ get_string(Operand(last.stack, 1)) = types

\* C24: the string of a List is `[`, the strings of its elements joined by
\* single spaces, and `]`, a String element being its bare characters: so
\* `cast` to string of a List pushes that String.
C24_ListToText ==
    (CastStep("string") /\ Operand(last.stack, 2).t = "List") =>
        Operand(StackOf(last.t), 1) = String(ToText(Operand(last.stack, 2)))

\* C25: get_number, get_bool and get_list give a result for every variant,
\* the one of the table: `cast` to number, bool and list pops the type and
\* the value and pushes the Number, Bool or List the table gives the value.
C25_CoercionTable ==
    \A types \in {"number", "bool", "list"} :
      CastStep(types) =>
        \E v \in {Operand(last.stack, 2)}, r \in {Operand(StackOf(last.t), 1)} :
          /\ PlainStep
          /\ MemoryOf(last.t) = last.memory
          /\ Below(StackOf(last.t), 1) = Below(last.stack, 2)
          /\ types = "number" =>
                /\ r.t = "Number"
                /\ v.t = "List" => NumOf(r) = Int2Num(Len(v.l))
                /\ v.t = "Number" => r = v
                /\ v.t = "Bool" => NumOf(r) = Int2Num(IF v = Bool(TRUE) THEN 1 ELSE 0)
                /\ v.t = "Image" => NumOf(r) = Int2Num(1)
          /\ types = "bool" =>
                /\ r.t = "Bool"
                /\ v.t = "List" => (r = Bool(FALSE) <=> Len(v.l) = 0)
                /\ v.t = "Number" => (r = Bool(FALSE) <=> NumOf(v) = Int2Num(0))
                /\ v.t = "Bool" => r = v
                /\ v.t = "String" => (r = Bool(FALSE) <=> Len(v.s) = 0)
                /\ v.t = "Image" => r = Bool(TRUE)
                /\ r \in {Bool(TRUE), Bool(FALSE)}
          /\ types = "list" =>
                /\ r.t = "List"
                /\ v.t = "List" => r = v
                /\ v.t \in {"Number", "Bool", "Error"} => r.l = <<v>>
                /\ v.t = "String" =>
                      /\ Len(r.l) = Len(v.s)
                      /\ \A i \in 1..Len(v.s) : r.l[i] = String(SubSeq(v.s, i, i))
                /\ v.t = "Image" => r.l = << >>

\* C25 happens: `cast` to list of the String ab has pushed the List of the
\* Strings a and b.
C25_Witness ==
    /\ script = "(ab) (list) cast"
    /\ last.act = "eval" /\ last.tok = "cast"
    /\ StackOf(Main) = <<List(<<String("a"), String("b")>>)>>

\* C26: `rand` pops a List and pushes one value: an element of the List, and
\* for the empty List the empty List; the values below and the memory stay.
C26_RandPicksElement ==
    (CommandStep("rand") /\ Len(last.stack) >= 1
        /\ Operand(last.stack, 1).t = "List") =>
      /\ PlainStep
      /\ MemoryOf(last.t) = last.memory
      /\ Len(StackOf(last.t)) = Len(last.stack)
      /\ Below(StackOf(last.t), 1) = Below(last.stack, 1)
      /\ \E list \in {Operand(last.stack, 1).l} :
            IF Len(list) = 0
            THEN Operand(StackOf(last.t), 1) = List(<< >>)
            ELSE \E j \in 1..Len(list) : Operand(StackOf(last.t), 1) = list[j]

\* C26 happens: `rand` has popped the List of 1, 2 and 3 and pushed the 2.
C26_Witness ==
    /\ script = "[1 2 3] rand"
    /\ last.act = "eval" /\ last.tok = "rand"
    /\ last.stack = <<List(<<Number(Int2Num(1)), Number(Int2Num(2)),
                             Number(Int2Num(3))>>)>>
    /\ StackOf(Main) = <<Number(Int2Num(2))>>

\* The tokenizer's locals after the first i characters of the script.
Scan(i) == TokFold(TokInit, script, 1, i)

\* C27: at a space of its input the tokenizer ends the token at hand exactly
\* when the three depths are zero, it is in no comment and no escape is
\* pending, and then the space is dropped; at every other space the tokens
\* stay and the space joins the token at hand.  The scripts `(hello world)`,
\* `[1 2 [3 4]]`, `{a b}` and `#a b#` are one token each.
C27_SpaceEndsToken ==
    last.act = "init" =>
      /\ \A i \in 1..Len(script) :
            Normalize(CharAt(script, i)) = " " =>
              \E st \in {Scan(i - 1)}, nx \in {Scan(i)} :
                IF /\ st.brackets = 0 /\ st.parentheses = 0 /\ st.braces = 0
                   /\ ~st.hash /\ ~st.escape
                THEN /\ nx.buffer = ""
                     /\ nx.syntax = IF st.buffer = "" THEN st.syntax
                                     ELSE Append(st.syntax, st.buffer)
                ELSE /\ nx.syntax = st.syntax
                     /\ nx.buffer \in {st.buffer \o " ", st.buffer \o "\\ "}
      /\ script \in {"(hello world)", "[1 2 [3 4]]", "{a b}", "#a b#"} =>
            /\ analyze_syntax(script) = <<script>>
            /\ frames[Main][1].toks = <<script>>

\* C27 happens: main is about to evaluate the two tokens of `7 [pop 8 9]`,
\* which the first space ended and the two spaces in the list did not.
C27_Witness ==
    /\ last.act = "init"
    /\ script = "7 [pop 8 9]"
    /\ frames[Main][1].toks = <<"7", "[pop 8 9]">>

\* C28: inside a string, a list, a block or a comment the tokenizer copies
\* a backslash and the character after it into the token, both of them.
C28_EscapeKeptInNesting ==
    last.act = "init" =>
      \A i \in 2..Len(script) :
        \E st \in {Scan(i - 1)} :
          (/\ st.escape
           /\ st.brackets > 0 \/ st.parentheses > 0 \/ st.braces > 0 \/ st.hash) =>
            Scan(i).buffer = st.buffer \o "\\" \o Normalize(CharAt(script, i))

\* The characters of s are no space, tab or line break.
NoSpace(s) == \A i \in 1..Len(s) : CharAt(s, i) \notin {" ", "\t", "\n", "\r"}

\* A token that is a text literal has been evaluated.
LiteralStep ==
    /\ last.act = "eval"
    /\ ~ParseNumber(last.tok).ok
    /\ last.tok \notin {"true", "false"}
    /\ Len(last.tok) >= 2
    /\ SubSeq(last.tok, 1, 1) = "(" /\ SubSeq(last.tok, Len(last.tok), Len(last.tok)) = ")"

\* C29: the String pushed for a text literal whose text has no space, tab
\* or line break is the tokens the tokenizer makes of that text, one after
\* the other.
C29_UnescapeAsTokenizer ==
    (LiteralStep /\ NoSpace(SubSeq(last.tok, 2, Len(last.tok) - 1))) =>
        /\ PlainStep
        /\ StackOf(last.t) =
              Append(last.stack,
                     String(Join(analyze_syntax(SubSeq(last.tok, 2, Len(last.tok) - 1)),
                                 "")))

\* C29 happens: the literal ((x)\)) has pushed the String (x)), the escaped
\* parenthesis without its backslash, as the tokenizer makes it of (x)\).
C29_Witness ==
    /\ script = "(a\\nb) (a(b)c) ((x)\\))"
    /\ last.act = "eval" /\ last.tok = "((x)\\))"
    /\ Operand(StackOf(Main), 1) = String("(x))")

\* evaluate_program to its end on one thread: the stack and the memory the
\* calls fr leave, innermost last, for code that spawns no thread, does not
\* exit and has one outcome.
RECURSIVE RunFrames(_, _, _)
RunFrames(fr, stk, mem) ==
    IF fr = << >> THEN [stack |-> stk, memory |-> mem]
    ELSE IF fr[Len(fr)].toks # << >>
    THEN The({RunFrames([fr EXCEPT ![Len(fr)].toks = Tail(@)] \o Frames(o.calls),
                        o.stack, o.memory) :
                 o \in {evaluate_token(Head(fr[Len(fr)].toks), stk, mem)}})
    ELSE IF fr[Len(fr)].k.op = "top" THEN [stack |-> stk, memory |-> mem]
    ELSE The({RunFrames(SubSeq(fr, 1, Len(fr) - 1) \o Frames(o.calls),
                        o.stack, o.memory) :
                 o \in {Continue(fr[Len(fr)].k, stk, mem)}})

\* The stack and the memory main ends with when the script is code.
Run(code) == RunFrames(<<Frame(Call(code, TopCont))>>, << >>, EmptyMemory)

\* C30: when main has evaluated `(c) eval`, for a text c with balanced
\* parentheses, the stack and the memory are the ones it ends with when the
\* script is c.
C30_EvalInPlace ==
    \A c \in Blocks :
        (script = "(" \o c \o ") eval" /\ status[Main] = "done") =>
            \E inline \in {Run(c)} :
                /\ StackOf(Main) = inline.stack
                /\ MemoryOf(Main) = inline.memory

\* The last token of the script is a list literal, and main has evaluated
\* the script to its end.
EndsWithList ==
    /\ script \in ListPrograms
    /\ status[Main] = "done"
    /\ \E toks \in {analyze_syntax(script)} :
          toks # << >> /\ Wrapped(toks[Len(toks)], "[", "]")

\* The stack main has when it comes to the last token of the script.
BeforeLastToken ==
    RunFrames(<<[toks |-> SubSeq(analyze_syntax(script), 1,
                                 Len(analyze_syntax(script)) - 1),
                 k |-> TopCont]>>, << >>, EmptyMemory).stack

\* C31: when a list literal has been evaluated the stack holds one value
\* more than it held at the token, the new List on top, and below it the
\* values it held at the token, whatever the interior pops.
C31_ListLiteralKeepsStack ==
    /\ ReturnStep("list") =>
          /\ Len(StackOf(last.t)) = last.k.old_len + 1
          /\ Operand(StackOf(last.t), 1).t = "List"
    /\ EndsWithList => Below(StackOf(Main), 1) = BeforeLastToken

\* C32: no step of a spawned thread stops the thread that spawned it: when a
\* spawned thread has made a step, whatever the command, its spawner, if it
\* has not come to the end of its code, can still evaluate its tokens.
C32_ChildCannotStopParent ==
    \A c \in Threads :
        (/\ last.t = c
         /\ SpawnedBy(c, parent[c])
         /\ status[parent[c]] = "run") => Runnable(parent[c])

\* C33: every token the tokenizer returns has at least one character:
\* those of the script, of which main evaluates the first or has none, and
\* those of every evaluate_program call a thread is in; also when the text
\* is empty, is spaces only or ends in a backslash.
C33_TokensNonEmpty ==
    /\ \A t \in Threads :
          \A j \in 1..Len(frames[t]) :
            \A i \in 1..Len(frames[t][j].toks) : Len(frames[t][j].toks[i]) >= 1
    /\ last.act = "init" =>
          /\ \A i \in 1..Len(analyze_syntax(script)) :
                Len(analyze_syntax(script)[i]) >= 1
          /\ script \in {"", "   ", "\\"} => frames[Main][1].toks = << >>
          /\ script = " a  \\" => frames[Main][1].toks = <<"a">>

\* C33 happens: of the text a and a backslash, which the text literal of
\* `(a \\) eval` stands for, `eval` has made the one token a.
C33_Witness ==
    /\ script = "(a \\\\) eval"
    /\ last.act = "eval" /\ last.tok = "eval"
    /\ last.stack = <<String("a \\")>>
    /\ Len(frames[Main]) = 2
    /\ frames[Main][2].toks = <<"a">>

\* C34: after every character of its input the tokenizer's three depths
\* are zero or more; so a closing parenthesis met at depth zero leaves the
\* depth at zero, and the space after it in `a) b` ends the token.
C34_DepthsNotNegative ==
    last.act = "init" =>
      /\ \A i \in 1..Len(script) :
            \E st \in {Scan(i)} :
                st.brackets >= 0 /\ st.parentheses >= 0 /\ st.braces >= 0
      /\ script = "a) b" => frames[Main][1].toks = <<"a)", "b">>

\* C35: `cast` of a value to the type that `type` reports for it pushes the
\* value itself: the stack is the one before the type name was pushed.
C35_CastToOwnType ==
    \A types \in {"number", "string", "bool", "list", "error", "image"} :
        (CastStep(types) /\ TypeName(Operand(last.stack, 2)) = types) =>
            StackOf(last.t) = Below(last.stack, 1)

====
